---- MODULE Spec2Model ----
(***************************************************************************)
(* Model of the nojs virtual-DOM reconciliation engine:                    *)
(*   - vdom: VNode, createElement, Patch, patchElement, patchAttributes,   *)
(*     patchChildren (render.go) over a model of the browser document;    *)
(*   - runtime: RendererImpl (renderer_impl.go), its instance registry     *)
(*     and the lifecycle hooks.                                            *)
(***************************************************************************)
EXTENDS Integers, Sequences, FiniteSets, TLC

(***************************************************************************)
(* Bounds of the model.                                                    *)
(***************************************************************************)
\* longest child list of a generated tree
MaxChildren == 2
\* number of Patch calls after the first render of a behaviour
MaxPatches == 2
\* number of edits the user makes in a behaviour
MaxEdits == 1
\* number of root passes (RenderRoot calls) of a behaviour
MaxPasses == 3
\* number of scoped passes (ReRenderSlot calls) of a behaviour
MaxSlotPasses == 1

\* root passes in the specifications with scoped passes, navigation or
\* hook faults
MaxShortPasses == 2
\* number of Navigate calls of a behaviour
MaxNavs == 2
\* number of passes of a behaviour in which a lifecycle hook panics
MaxFaults == 1
\* number of concurrent tasks, and of the calls they make in a behaviour
MaxTasks == 2
MaxCalls == 3
\* number of goroutines HomePage.OnParametersSet starts in a behaviour
MaxGoroutines == 3
\* number of ReRenderSlot calls of a behaviour of the scoped specification
MaxScopedPasses == 2

(***************************************************************************)
(* VNode (vdom/vnode.go).  An attribute value is a string, a bool or an    *)
(* event handler func(js.Value); it is kept with its dynamic type, as the  *)
(* `any` of the Go map does.                                               *)
(***************************************************************************)
NoAttrs == [k \in {} |-> [t |-> "str", v |-> ""]]

StrVal(s) == [t |-> "str", v |-> s]
BoolVal(b) == [t |-> "bool", v |-> IF b THEN "true" ELSE "false"]
FuncVal(h) == [t |-> "func", v |-> h]

VNode(tag, attrs, children, content) ==
    [Tag |-> tag, Attributes |-> attrs, Children |-> children,
     Content |-> content, ComponentKey |-> ""]

\* the nil *VNode
NilVNode == VNode("#nil", NoAttrs, <<>>, "")

Text(content) == VNode("#text", NoAttrs, <<>>, content)

(***************************************************************************)
(* The browser document.  A native node is a record; `id` is its identity  *)
(* (the generation that created it and the place in the tree it was        *)
(* created for).  vw, tw, aw, cw count the writes the renderer made to     *)
(* the node's value, textContent, attributes and child list; `fault` marks *)
(* a JavaScript exception raised by a call on the node (syscall/js turns   *)
(* it into a Go panic).                                                    *)
(***************************************************************************)
NoId == <<0, <<>>>>

NativeNode(id, tag, text) ==
    [id |-> id, tag |-> tag, attrs |-> [k \in {} |-> ""],
     value |-> IF tag = "#text" THEN "<undefined>" ELSE "",
     text |-> text, kids |-> <<>>, listeners |-> <<>>,
     vw |-> 0, tw |-> 0, aw |-> 0, cw |-> 0, fault |-> FALSE]

\* js.Undefined()
Undefined == NativeNode(NoId, "#undefined", "")

Truthy(d) == d.tag # "#undefined"

IsTextNode(d) == d.tag = "#text"

\* a JavaScript exception while operating on d
Fault(d) == [d EXCEPT !.fault = TRUE]

\* NodeList.item(i), i counted from 0
Item(d, i) == IF i < Len(d.kids) THEN d.kids[i + 1] ELSE Undefined

\* el.setAttribute(k, s): a method of Element, absent from Text
SetAttribute(d, k, s) ==
    IF IsTextNode(d) THEN Fault(d)
    ELSE [d EXCEPT !.attrs = [x \in (DOMAIN d.attrs) \cup {k} |->
                                 IF x = k THEN s ELSE d.attrs[x]],
                   !.aw = @ + 1]

\* el.removeAttribute(k)
RemoveAttribute(d, k) ==
    IF IsTextNode(d) THEN Fault(d)
    ELSE [d EXCEPT !.attrs = [x \in (DOMAIN d.attrs) \ {k} |-> d.attrs[x]],
                   !.aw = @ + 1]

\* el.addEventListener(ev, cb): EventTarget, so Text has it too.  Every call
\* passes a new js.FuncOf, so the listener is added, never merged.
AddEventListener(d, ev, h) == [d EXCEPT !.listeners = Append(@, <<ev, h>>)]

\* el.value = s
SetValue(d, s) == [d EXCEPT !.value = s, !.vw = @ + 1]

\* node.textContent = s: on an element it replaces all children by one text
\* node (none when s is empty); on a text node it sets the data.
SetTextContent(d, s, g, path) ==
    IF IsTextNode(d) THEN [d EXCEPT !.text = s, !.tw = @ + 1]
    ELSE [d EXCEPT !.kids = IF s = "" THEN <<>>
                            ELSE <<NativeNode(<<g, Append(path, 0)>>, "#text", s)>>,
                   !.tw = @ + 1]

\* parent.appendChild(c): a Text node cannot have children
AppendChild(d, c) ==
    IF IsTextNode(d) THEN Fault(d)
    ELSE [d EXCEPT !.kids = Append(@, c), !.cw = @ + 1]

\* parent.removeChild(childNodes.item(i))
RemoveChildAt(d, i) ==
    [d EXCEPT !.kids = SubSeq(@, 1, i) \o SubSeq(@, i + 2, Len(@)), !.cw = @ + 1]

(***************************************************************************)
(* render.go: setAttributeValue, attachEventListeners, createElement       *)
(***************************************************************************)
EventKeys == {"onClick", "onInput"}

\* len(key) > 2 && key[0] == 'o' && key[1] == 'n'
IsEventKey(k) == k \in EventKeys

\* "onClick" -> "click", "onInput" -> "input"
EventName(k) == IF k = "onClick" THEN "click" ELSE "input"

setAttributeValue(el, key, value) ==
    IF value.t = "bool"
    THEN (IF value.v = "true" THEN SetAttribute(el, key, "") ELSE el)
    ELSE IF value.t = "func" THEN el
    ELSE SetAttribute(el, key, value.v)

RECURSIVE attachKeys(_, _, _)
attachKeys(el, attributes, keys) ==
    IF keys = {} THEN el
    ELSE LET k == CHOOSE x \in keys : TRUE
             e1 == IF IsEventKey(k) /\ attributes[k].t = "func"
                   THEN AddEventListener(el, EventName(k), attributes[k].v)
                   ELSE el
         IN attachKeys(e1, attributes, keys \ {k})

attachEventListeners(el, attributes) == attachKeys(el, attributes, DOMAIN attributes)

RECURSIVE setAllAttributes(_, _, _)
setAllAttributes(el, attributes, keys) ==
    IF keys = {} THEN el
    ELSE LET k == CHOOSE x \in keys : TRUE
         IN setAllAttributes(setAttributeValue(el, k, attributes[k]), attributes, keys \ {k})

\* a freshly created element: the writes that built it are not counted
Fresh(d) == [d EXCEPT !.vw = 0, !.tw = 0, !.aw = 0, !.cw = 0]

ContentChildrenTags ==
    {"div", "h1", "h2", "h3", "h4", "h5", "h6", "li", "a", "nav", "span",
     "section", "article", "header", "footer", "main", "aside"}
ContentOnlyTags == {"p", "option"}
ValueTags == {"input", "textarea"}
ChildrenOnlyTags == {"ul", "ol", "select", "form"}
SupportedTags ==
    {"#text", "button"} \cup ContentChildrenTags \cup ContentOnlyTags
        \cup ValueTags \cup ChildrenOnlyTags

RECURSIVE createElement(_, _, _)
RECURSIVE createChildren(_, _, _, _)

\* the loop `for _, child := range n.Children { appendChild if Truthy }`
createChildren(children, i, g, path) ==
    IF i > Len(children) THEN <<>>
    ELSE LET c == createElement(children[i], g, Append(path, i))
         IN (IF Truthy(c) THEN <<c>> ELSE <<>>) \o createChildren(children, i + 1, g, path)

createElement(n, g, path) ==
    IF n = NilVNode \/ n.Tag \notin SupportedTags THEN Undefined
    ELSE IF n.Tag = "#text"
    THEN (IF n.Content = "" THEN Undefined
          ELSE NativeNode(<<g, path>>, "#text", n.Content))
    ELSE
      LET id == <<g, path>>
          el0 == NativeNode(id, n.Tag, "")
          el1 == attachEventListeners(
                     setAllAttributes(el0, n.Attributes, DOMAIN n.Attributes),
                     n.Attributes)
          withText == IF n.Content # "" THEN SetTextContent(el1, n.Content, g, path)
                      ELSE el1
          kids == createChildren(n.Children, 1, g, path)
      IN Fresh(
          IF n.Tag \in ContentOnlyTags THEN withText
          ELSE IF n.Tag \in ValueTags
          THEN (IF n.Content # "" THEN SetValue(el1, n.Content) ELSE el1)
          ELSE IF n.Tag = "button"
          THEN (IF n.Content # "" THEN withText
                ELSE [el1 EXCEPT !.kids = kids])
          ELSE IF n.Tag \in ChildrenOnlyTags
          THEN [el1 EXCEPT !.kids = kids]
          ELSE [withText EXCEPT !.kids = @ \o kids])

(***************************************************************************)
(* render.go: patchAttributes, patchElement, patchChildren, Patch.          *)
(* `fid` is the id of the focused native node (document.activeElement), g   *)
(* and path name the nodes the call creates.  A call that raised an         *)
(* exception ends the walk: every later step is skipped once fault is set.  *)
(***************************************************************************)
RECURSIVE removeOldAttributes(_, _, _, _)
removeOldAttributes(domElement, oldAttrs, newAttrs, keys) ==
    IF keys = {} \/ domElement.fault THEN domElement
    ELSE LET key == CHOOSE x \in keys : TRUE
             d1 == IF key \notin DOMAIN newAttrs /\ ~IsEventKey(key)
                   THEN RemoveAttribute(domElement, key)
                   ELSE domElement
         IN removeOldAttributes(d1, oldAttrs, newAttrs, keys \ {key})

RECURSIVE setNewAttributes(_, _, _, _)
setNewAttributes(domElement, oldAttrs, newAttrs, keys) ==
    IF keys = {} \/ domElement.fault THEN domElement
    ELSE LET key == CHOOSE x \in keys : TRUE
             d1 == IF ~IsEventKey(key)
                      /\ (key \notin DOMAIN oldAttrs \/ oldAttrs[key] # newAttrs[key])
                   THEN setAttributeValue(domElement, key, newAttrs[key])
                   ELSE domElement
         IN setNewAttributes(d1, oldAttrs, newAttrs, keys \ {key})

patchAttributes(domElement, oldAttrs, newAttrs) ==
    setNewAttributes(
        removeOldAttributes(domElement, oldAttrs, newAttrs, DOMAIN oldAttrs),
        oldAttrs, newAttrs, DOMAIN newAttrs)

\* A faulty variant of patchValue, which writes the new content even when it
\* is empty; C3's formula must tell it from patchValue.
patchValueAnyContent(domElement, newVNode, fid) ==
    IF IsTextNode(domElement) THEN Fault(domElement)
    ELSE IF domElement.id # fid /\ domElement.value # newVNode.Content
    THEN SetValue(domElement, newVNode.Content)
    ELSE domElement

\* the content step of patchElement for input and textarea:
\* domElement.Call("matches", ":focus") is a method of Element only
patchValue(domElement, newVNode, fid) ==
    IF IsTextNode(domElement) THEN Fault(domElement)
    ELSE IF domElement.id # fid /\ newVNode.Content # ""
              /\ domElement.value # newVNode.Content
    THEN SetValue(domElement, newVNode.Content)
    ELSE domElement

\* the content step of patchElement for select
patchSelect(domElement, newVNode) ==
    IF newVNode.Content # "" THEN SetValue(domElement, newVNode.Content)
    ELSE domElement

\* A faulty variant of patchText, which writes a changed content whether or
\* not the new node has children; C30's formula must tell it from patchText.
patchTextAlways(domElement, oldVNode, newVNode, g, path) ==
    IF oldVNode.Content # newVNode.Content
    THEN SetTextContent(domElement, newVNode.Content, g, path)
    ELSE domElement

\* the content step of patchElement for every other tag
patchText(domElement, oldVNode, newVNode, g, path) ==
    IF Len(newVNode.Children) = 0 /\ oldVNode.Content # newVNode.Content
    THEN SetTextContent(domElement, newVNode.Content, g, path)
    ELSE domElement

patchContent(domElement, oldVNode, newVNode, fid, g, path) ==
    IF newVNode.Tag \in ValueTags THEN patchValue(domElement, newVNode, fid)
    ELSE IF newVNode.Tag = "select" THEN patchSelect(domElement, newVNode)
    ELSE patchText(domElement, oldVNode, newVNode, g, path)

\* patchElement's branch for different tags: the node the parent holds in
\* the slot afterwards (parent.replaceChild(newElement, domElement))
replaceElement(domElement, newVNode, g, path) ==
    LET newElement == createElement(newVNode, g, path)
    IN IF Truthy(newElement) THEN newElement ELSE domElement

Min(a, b) == IF a < b THEN a ELSE b

\* the slot i of the parent after patchElement ran on it
PutChild(d, i, r) ==
    [d EXCEPT !.kids[i + 1] = r,
              !.cw = IF r.id # d.kids[i + 1].id THEN @ + 1 ELSE @,
              !.fault = r.fault]

RECURSIVE patchElement(_, _, _, _, _, _)
RECURSIVE patchExisting(_, _, _, _, _, _, _)
RECURSIVE appendNew(_, _, _, _, _)
RECURSIVE removeExtra(_, _, _)

\* for i := 0; i < minLen; i++ { patchElement(item(i), old[i], new[i]) }
patchExisting(d, oldChildren, newChildren, i, fid, g, path) ==
    IF i >= Min(Len(oldChildren), Len(newChildren)) \/ d.fault THEN d
    ELSE LET childElement == Item(d, i)
             d1 == IF Truthy(childElement)
                   THEN PutChild(d, i,
                            patchElement(childElement, oldChildren[i + 1],
                                         newChildren[i + 1], fid, g, Append(path, i + 1)))
                   ELSE d
         IN patchExisting(d1, oldChildren, newChildren, i + 1, fid, g, path)

\* for i := oldLen; i < newLen; i++ { appendChild(createElement(new[i])) }
appendNew(d, newChildren, i, g, path) ==
    IF i >= Len(newChildren) \/ d.fault THEN d
    ELSE LET newChild == createElement(newChildren[i + 1], g, Append(path, i + 1))
             d1 == IF Truthy(newChild) THEN AppendChild(d, newChild) ELSE d
         IN appendNew(d1, newChildren, i + 1, g, path)

\* for i := oldLen - 1; i >= newLen; i-- { removeChild(item(i)) }
removeExtra(d, i, newLen) ==
    IF i < newLen THEN d
    ELSE removeExtra(IF Truthy(Item(d, i)) THEN RemoveChildAt(d, i) ELSE d,
                     i - 1, newLen)

patchChildren(domElement, oldChildren, newChildren, fid, g, path) ==
    LET d1 == patchExisting(domElement, oldChildren, newChildren, 0, fid, g, path)
        d2 == IF Len(newChildren) > Len(oldChildren)
              THEN appendNew(d1, newChildren, Len(oldChildren), g, path)
              ELSE d1
    IN IF d2.fault THEN d2
       ELSE IF Len(oldChildren) > Len(newChildren)
       THEN removeExtra(d2, Len(oldChildren) - 1, Len(newChildren))
       ELSE d2

patchElement(domElement, oldVNode, newVNode, fid, g, path) ==
    IF ~Truthy(domElement) \/ oldVNode = NilVNode \/ newVNode = NilVNode
    THEN domElement
    ELSE IF oldVNode.Tag # newVNode.Tag
    THEN replaceElement(domElement, newVNode, g, path)
    ELSE LET d1 == patchAttributes(domElement, oldVNode.Attributes, newVNode.Attributes)
             d2 == IF d1.fault THEN d1
                   ELSE attachEventListeners(d1, newVNode.Attributes)
             d3 == IF d2.fault THEN d2
                   ELSE patchContent(d2, oldVNode, newVNode, fid, g, path)
         IN IF d3.fault THEN d3
            ELSE patchChildren(d3, oldVNode.Children, newVNode.Children, fid, g, path)

\* RenderTo / RenderToSelector: the children of the mount element afterwards
RenderTo(m, n, g) ==
    IF n = NilVNode THEN m
    ELSE LET el == createElement(n, g, <<>>)
         IN IF Truthy(el) THEN Append(m, el) ELSE m

\* Clear: mount.innerHTML = ""
Clear(m) == <<>>

\* Patch: the children of the mount element afterwards
Patch(m, oldVNode, newVNode, fid, g) ==
    IF oldVNode = NilVNode \/ newVNode = NilVNode THEN m
    ELSE IF Len(m) = 0 THEN RenderTo(m, newVNode, g)
    ELSE [m EXCEPT ![1] = patchElement(m[1], oldVNode, newVNode, fid, g, <<>>)]

(***************************************************************************)
(* Trees handed to the renderer: every leaf over the tags and contents     *)
(* below, and every div whose children are at most MaxChildren child       *)
(* leaves.                                                                 *)
(***************************************************************************)
Contents == {"", "a", "b"}

LeafTrees ==
    {VNode(t, NoAttrs, <<>>, c) : t \in {"input", "select", "div"}, c \in Contents}
        \cup {Text(""), Text("a")}

AttrTrees ==
    {VNode("div", [k \in {"disabled"} |-> BoolVal(TRUE)], <<>>, ""),
     VNode("div", [k \in {"disabled"} |-> BoolVal(FALSE)], <<>>, ""),
     VNode("div", [k \in {"onClick"} |-> FuncVal("h1")], <<>>, "")}

ChildLeaves ==
    {Text(""), Text("a"), VNode("input", NoAttrs, <<>>, "a"),
     VNode("select", NoAttrs, <<>>, "a")}

ChildLists == UNION {[1..n -> ChildLeaves] : n \in 0..MaxChildren}

ParentTrees == {VNode("div", NoAttrs, ch, "") : ch \in ChildLists}

Trees == LeafTrees \cup AttrTrees \cup ParentTrees

(***************************************************************************)
(* Observations of the document.                                           *)
(***************************************************************************)
RECURSIVE NodeIds(_)
RECURSIVE SeqIds(_)
SeqIds(ks) == UNION {NodeIds(ks[i]) : i \in DOMAIN ks}
NodeIds(d) == {d.id} \cup SeqIds(d.kids)

RECURSIVE NodeAt(_, _)
\* the node with identity id below the node list ks (Undefined when absent)
NodeAt(ks, id) ==
    IF \E i \in DOMAIN ks : ks[i].id = id
    THEN ks[CHOOSE i \in DOMAIN ks : ks[i].id = id]
    ELSE IF \E i \in DOMAIN ks : id \in SeqIds(ks[i].kids)
    THEN NodeAt(ks[CHOOSE i \in DOMAIN ks : id \in SeqIds(ks[i].kids)].kids, id)
    ELSE Undefined

RECURSIVE TypeInto(_, _, _)
\* the user types: the value of the node id becomes s (no renderer write)
TypeInto(ks, id, s) ==
    [i \in DOMAIN ks |->
        IF ks[i].id = id THEN [ks[i] EXCEPT !.value = s]
        ELSE [ks[i] EXCEPT !.kids = TypeInto(@, id, s)]]

\* elements that take the input focus
Focusable == ValueTags \cup {"select"}

FocusableIds(ks) == {id \in SeqIds(ks) : NodeAt(ks, id).tag \in Focusable}

\* what the user sees of a native node: tag, attributes, value, text and
\* children, without identity, write counters and listeners; a text node
\* with no text shows nothing and is left out
RECURSIVE View(_)
RECURSIVE ViewAll(_)
View(d) ==
    [tag |-> d.tag, attrs |-> d.attrs,
     value |-> IF d.tag \in Focusable THEN d.value ELSE "",
     text |-> d.text,
     kids |-> ViewAll(d.kids)]

ViewAll(ks) ==
    IF ks = <<>> THEN <<>>
    ELSE (IF IsTextNode(ks[1]) /\ ks[1].text = "" THEN <<>> ELSE <<View(ks[1])>>)
             \o ViewAll(Tail(ks))

AnyFault(ks) == \E i \in DOMAIN ks : ks[i].fault

(***************************************************************************)
(* State.  mount is the child list of the mount element, prevVDOM the      *)
(* retained tree (RendererImpl.prevVDOM), focus the identity of the        *)
(* focused native node, gen the number of renders and patches so far,      *)
(* crashed whether a panic ended the program, last the record of the last  *)
(* render or patch (the tree patched from, the document and the focus      *)
(* before it).                                                             *)
(***************************************************************************)
VARIABLES mount, prevVDOM, focus, gen, crashed, last, edits

(***************************************************************************)
(* RendererImpl (runtime/renderer_impl.go).  A component is an object      *)
(* identity (a pointer): NoObj is nil.  A registry key is the pair of the  *)
(* rendering parent and the local key (fmt.Sprintf("%p:%s", parent, key)). *)
(* hooks is the history of the calls the renderer made, in order; nextObj  *)
(* the identity of the next component the application constructs; passes   *)
(* the number of root passes so far.                                       *)
(***************************************************************************)
VARIABLES instances, initialized, activeKeys, currentComponent, currentKey,
          renderingStack, instanceVDOMCache, hooks, nextObj, passes

(***************************************************************************)
(* The environment of the renderer: build is the build the program was     *)
(* compiled for (the dev tag selects renderer_dev.go), navManager whether   *)
(* NewRenderer was given a router, hasMount whether the selector mountID    *)
(* matches an element of the document.  ret is the error value of the last  *)
(* call that returns one; slots, navs and faults count the ReRenderSlot     *)
(* calls, the Navigate calls and the passes with a panicking hook.          *)
(***************************************************************************)
VARIABLES build, navManager, hasMount, ret, slots, navs, faults

(***************************************************************************)
(* Tasks (goroutines) calling the renderer: mu is the holder of            *)
(* RendererImpl.mu, pc the position of each task, op the call it makes,     *)
(* calls the number of calls issued so far.                                 *)
(***************************************************************************)
VARIABLES mu, pc, op, calls

(***************************************************************************)
(* The application's own goroutines: home holds the fields of every        *)
(* HomePage instance created so far (by object identity), goroutines the   *)
(* goroutines HomePage.OnParametersSet started, each with the instance it  *)
(* closes over and its position.                                           *)
(***************************************************************************)
VARIABLES home, goroutines

appVars == <<home, goroutines>>

domVars == <<focus, edits>>

envVars == <<build, navManager, hasMount, ret, slots, navs, faults>>

concVars == <<mu, pc, op, calls, appVars>>

renVars == <<instances, initialized, activeKeys, currentComponent, currentKey,
             renderingStack, instanceVDOMCache, hooks, nextObj, passes>>

vars == <<mount, prevVDOM, gen, crashed, last, domVars, renVars, envVars, concVars>>

NoObj == 0
\* the two components the application sets as root
RootA == 1
RootB == 2
RootComponents == {RootA, RootB}
\* the keys SetCurrentComponent is given (route paths)
RootKeys == {"/a", "/b"}
\* the local keys the Render functions hand to RenderChild
LocalKeys == <<"x", "y">>

RootInitKey == <<NoObj, "__root__">>

NoOp == [op |-> "none", old |-> NilVNode, pre |-> <<>>, fid |-> NoId]

\* the tasks, and no task
Tasks == 1..MaxTasks
NoTask == 0
NoCall == [name |-> "none", comp |-> NoObj, key |-> ""]

\* NewRenderer, an empty document, no call made yet
InitFields ==
    /\ mount = <<>>
    /\ prevVDOM = NilVNode
    /\ focus = NoId
    /\ gen = 0
    /\ crashed = FALSE
    /\ last = NoOp
    /\ edits = 0
    /\ instances = [k \in {} |-> NoObj]
    /\ initialized = {}
    /\ activeKeys = {}
    /\ renderingStack = <<>>
    /\ instanceVDOMCache = [o \in {} |-> NilVNode]
    /\ hooks = <<>>
    /\ nextObj = 3
    /\ passes = 0
    /\ ret = "none"
    /\ slots = 0
    /\ navs = 0
    /\ faults = 0
    /\ mu = NoTask
    /\ pc = [t \in Tasks |-> "idle"]
    /\ op = [t \in Tasks |-> NoCall]
    /\ calls = 0
    /\ home = [o \in {} |-> NoObj]
    /\ goroutines = <<>>

\* NewRenderer: no current component
InitState ==
    /\ InitFields
    /\ currentComponent = NoObj
    /\ currentKey = ""

\* the resilient build, a router and a mount element
Init ==
    /\ InitState
    /\ build = "prod"
    /\ navManager = TRUE
    /\ hasMount = TRUE

\* the focus after the document changed: a removed node loses it
KeepFocus(fid, ks) == IF fid \in SeqIds(ks) THEN fid ELSE NoId

\* first render of a tree: vdom.Clear, then vdom.RenderToSelector
DomRender(t) ==
    /\ ~crashed /\ prevVDOM = NilVNode
    /\ mount' = RenderTo(Clear(mount), t, gen + 1)
    /\ prevVDOM' = t
    /\ gen' = gen + 1
    /\ focus' = KeepFocus(focus, mount')
    /\ last' = [op |-> "render", old |-> prevVDOM, pre |-> mount, fid |-> focus]
    /\ UNCHANGED <<crashed, edits, renVars, envVars, concVars>>

\* a later render: vdom.Patch against the retained tree
DomPatch(t) ==
    /\ ~crashed /\ prevVDOM # NilVNode /\ gen <= MaxPatches
    /\ mount' = Patch(mount, prevVDOM, t, focus, gen + 1)
    /\ crashed' = AnyFault(mount')
    /\ prevVDOM' = t
    /\ gen' = gen + 1
    /\ focus' = KeepFocus(focus, mount')
    /\ last' = [op |-> "patch", old |-> prevVDOM, pre |-> mount, fid |-> focus]
    /\ UNCHANGED <<edits, renVars, envVars, concVars>>

\* the user moves the focus to a focusable element
UserFocus(id) ==
    /\ ~crashed /\ focus # id /\ id \in FocusableIds(mount)
    /\ focus' = id
    /\ last' = [last EXCEPT !.op = "focus"]
    /\ UNCHANGED <<mount, prevVDOM, gen, crashed, edits, renVars, envVars, concVars>>

\* the focused element loses the focus
UserBlur ==
    /\ ~crashed /\ focus # NoId
    /\ focus' = NoId
    /\ last' = [last EXCEPT !.op = "blur"]
    /\ UNCHANGED <<mount, prevVDOM, gen, crashed, edits, renVars, envVars, concVars>>

\* the user edits the focused element
UserType(s) ==
    /\ ~crashed /\ focus # NoId /\ edits < MaxEdits
    /\ NodeAt(mount, focus).value # s
    /\ mount' = TypeInto(mount, focus, s)
    /\ last' = [last EXCEPT !.op = "type"]
    /\ edits' = edits + 1
    /\ UNCHANGED <<prevVDOM, focus, gen, crashed, renVars, envVars, concVars>>

NextDom ==
    \/ \E t \in Trees : DomRender(t)
    \/ \E t \in Trees : DomPatch(t)
    \/ \E id \in FocusableIds(mount) : UserFocus(id)
    \/ UserBlur
    \/ \E s \in Contents : UserType(s)

SpecDom == Init /\ [][NextDom]_vars

(***************************************************************************)
(* The application.  What the Render functions do in a pass is the plan of *)
(* the pass: the local keys the root hands to RenderChild, in order, and   *)
(* whether the child "x" renders a child of its own.  Every RenderChild    *)
(* call is given a newly constructed component (&Comp{...}).               *)
(***************************************************************************)
Plans ==
    {[keys |-> ks, deep |-> d, nil |-> FALSE] :
        ks \in {<<>>, <<"x">>, <<"y">>, <<"x", "y">>}, d \in BOOLEAN}

\* the pass in which Render of the root returns nil
NilPlan == [keys |-> <<>>, deep |-> FALSE, nil |-> TRUE]

\* the tag of the tree a root component renders
RootTag(o) == IF o = RootA THEN "div" ELSE "section"

(***************************************************************************)
(* The renderer state a pass works on, threaded through the calls.         *)
(***************************************************************************)
\* which call of a lifecycle hook panics in a pass: the n-th call of hook h
\* (no call when h is "none")
NoFault == [h |-> "none", n |-> 0]

FaultyHooks == {"OnMount", "OnParametersSet", "OnUnmount"}

Faults == {NoFault} \cup {[h |-> h, n |-> n] : h \in FaultyHooks, n \in 1..2}

\* dead: a panic is unwinding the pass; stage: how far RenderRoot got
\* ("build" the tree, "native" step done, "cleanup" after the tree is stored)
PassStateOf(flt) ==
    [instances |-> instances, initialized |-> initialized,
     activeKeys |-> activeKeys, renderingStack |-> renderingStack,
     hooks |-> hooks, nextObj |-> nextObj, pass |-> passes + slots + 1,
     flt |-> flt, dead |-> FALSE, stage |-> "build"]

PassState == PassStateOf(NoFault)

NoKey == <<NoObj, "">>

\* the calls of hook h made so far in the pass
CallsInPass(st, h) ==
    Cardinality({i \in DOMAIN st.hooks : st.hooks[i].h = h /\ st.hooks[i].p = st.pass})

\* the call of hook h about to be made panics
Panics(st, h) == st.flt.h = h /\ CallsInPass(st, h) + 1 = st.flt.n

\* A faulty variant of Propagates, with the recover in both builds; C33's
\* formula must tell it from Propagates.
PropagatesNever(panicked) == FALSE

\* A faulty variant of Propagates, without the recover of the resilient
\* build; C20's formula must tell it from Propagates.
PropagatesAlways(panicked) == panicked

\* callOnMount, callOnParametersSet, callOnUnmount: whether a panic of the
\* hook leaves the caller (renderer_dev.go) or is recovered (the other build)
Propagates(panicked) == panicked /\ build = "dev"

\* one call the renderer makes: hook h on object o (k and c are the registry
\* key and the candidate of a RenderChild resolution, f whether it panicked)
Call(st, h, o, k, c) ==
    IF st.dead THEN st
    ELSE [st EXCEPT !.hooks = Append(@, [h |-> h, o |-> o, k |-> k, c |-> c,
                                         p |-> st.pass, f |-> Panics(st, h)]),
                    !.dead = Propagates(Panics(st, h))]

Hook(st, h, o) == Call(st, h, o, NoKey, NoObj)

\* a nil dereference in the renderer itself
Kill(st) == [st EXCEPT !.dead = TRUE]

Put(f, k, v) == [x \in (DOMAIN f) \cup {k} |-> IF x = k THEN v ELSE f[x]]

Push(st, o) ==
    IF st.dead THEN st ELSE [st EXCEPT !.renderingStack = Append(@, o)]

Pop(st) ==
    IF st.dead THEN st
    ELSE [st EXCEPT !.renderingStack =
                        IF Len(@) > 0 THEN SubSeq(@, 1, Len(@) - 1) ELSE @]

\* A faulty variant of markActive, which marks nothing; C25's formula must
\* tell it from markActive.
markActiveNever(st, globalKey) == st

\* r.activeKeys[globalKey] = true
markActive(st, globalKey) ==
    IF st.dead THEN st ELSE [st EXCEPT !.activeKeys = @ \cup {globalKey}]

\* r.initialized[key] = true
markInitialized(st, key) ==
    IF st.dead THEN st ELSE [st EXCEPT !.initialized = @ \cup {key}]

\* r.instances[globalKey] = instance
storeInstance(st, globalKey, instance) ==
    IF st.dead THEN st ELSE [st EXCEPT !.instances = Put(@, globalKey, instance)]

\* A faulty variant of GlobalKey, which leaves the parent out of the key;
\* C22's formula must tell it from GlobalKey.
GlobalKeyLocal(st, key) == <<NoObj, key>>

\* globalKey of RenderChild
GlobalKey(st, key) ==
    IF Len(st.renderingStack) > 0
    THEN <<st.renderingStack[Len(st.renderingStack)], key>>
    ELSE <<NoObj, key>>

\* A faulty variant of resolveInstance, which renders the candidate of every
\* call; C7's formula must tell it from resolveInstance.
resolveInstanceCandidate(st, globalKey, childWithProps) == childWithProps

\* the instance RenderChild renders for a key: the stored one when the key
\* is registered, else the candidate
resolveInstance(st, globalKey, childWithProps) ==
    IF globalKey \in DOMAIN st.instances THEN st.instances[globalKey]
    ELSE childWithProps

\* RenderChild, first render of a key: store the instance, OnMount, mark
\* the key initialized
mountInstance(st, globalKey, instance) ==
    markInitialized(Hook(storeInstance(st, globalKey, instance), "OnMount", instance),
                    globalKey)

\* A faulty variant of applyProps, which never syncs the props; C23's
\* formula must tell it from applyProps.
applyPropsNever(st, globalKey, instance, childWithProps) == st

\* RenderChild, the key is registered: updater.ApplyProps(childWithProps) on
\* the stored instance
applyProps(st, globalKey, instance, childWithProps) ==
    Call(st, "ApplyProps", instance, globalKey, childWithProps)

\* RenderChild from the registry lookup to the call of OnParametersSet
prepareInstance(st, globalKey, instance, childWithProps) ==
    Hook(IF globalKey \notin DOMAIN st.instances
         THEN mountInstance(st, globalKey, instance)
         ELSE applyProps(st, globalKey, instance, childWithProps),
         "OnParametersSet", instance)

\* RenderChild after instance.Render(r): pop the rendering stack
popRendered(r) == [st |-> Pop(r.st), vnode |-> r.vnode]

\* instance.Render(r): shape says what the Render function returns in this
\* pass (see Shapes below)
RECURSIVE Render(_, _, _)

\* RenderChild once the key is marked active and the instance is resolved
renderInstance(st, globalKey, instance, childWithProps, shape) ==
    popRendered(
        Render(
            Push(prepareInstance(
                     Call(st, "RenderChild", instance, globalKey, childWithProps),
                     globalKey, instance, childWithProps),
                 instance),
            instance, shape))

\* RenderChild once globalKey is computed
renderKeyed(st, globalKey, childWithProps, shape) ==
    renderInstance(markActive(st, globalKey), globalKey,
                   resolveInstance(st, globalKey, childWithProps),
                   childWithProps, shape)

\* RenderChild; shape is what the Render function of the rendered instance
\* returns
RenderChild(st, key, childWithProps, shape) ==
    renderKeyed(st, GlobalKey(st, key), childWithProps, shape)

\* the children rendered so far and the vnode of one more
joinChild(vnodes, r) == [st |-> r.st, vnodes |-> Append(vnodes, r.vnode)]

\* one RenderChild call of a Render function: it constructs the candidate
\* and hands it to RenderChild
renderNextChild(prev, key, shape) ==
    joinChild(prev.vnodes,
              RenderChild([prev.st EXCEPT !.nextObj = @ + 1], key, prev.st.nextObj,
                          shape))

\* the RenderChild calls of one Render function, in the order of keys
renderChildren(st, keys, shapes) ==
    LET after[i \in 0..Len(keys)] ==
            IF i = 0 THEN [st |-> st, vnodes |-> <<>>]
            ELSE renderNextChild(after[i - 1], keys[i], shapes[i])
    IN after[Len(keys)]

\* the tree a Render function returns for the children it rendered
\* (a nil result is noted in the log)
treeOf(o, shape, r) ==
    IF shape.nil THEN [st |-> Hook(r.st, "RenderNil", o), vnode |-> NilVNode]
    ELSE [st |-> r.st, vnode |-> VNode(shape.tag, NoAttrs, r.vnodes, shape.content)]

Render(st, o, shape) ==
    treeOf(o, shape, renderChildren(Hook(st, "Render", o), shape.keys, shape.kids))

(***************************************************************************)
(* Shapes: what a Render function does in a pass, i.e. the tag and content *)
(* of the tree it returns, the keys it hands to RenderChild and the shapes *)
(* of the children rendered under them.                                    *)
(***************************************************************************)
\* Render of a component without children
LeafShape ==
    [tag |-> "span", content |-> "c", keys |-> <<>>, kids |-> <<>>, nil |-> FALSE]

\* Render of a component that renders one child, under the first local key
LayoutShape ==
    [tag |-> "div", content |-> "", keys |-> <<LocalKeys[1]>>, kids |-> <<LeafShape>>,
     nil |-> FALSE]

\* Render of the child registered under key: a layout when the plan says so
\* and the key is the first local key, else a leaf
ChildShape(key, plan) ==
    IF plan.deep /\ key = LocalKeys[1] THEN LayoutShape ELSE LeafShape

\* Render of the root component o: the children of the plan under its tag
RootShape(o, plan) ==
    [tag |-> RootTag(o), content |-> "", keys |-> plan.keys,
     kids |-> [i \in DOMAIN plan.keys |-> ChildShape(plan.keys[i], plan)],
     nil |-> plan.nil]

\* the keys cleanupUnmountedComponents retires
Retired(st) == (DOMAIN st.instances) \ st.activeKeys

\* the orders in which a Go map range may visit the keys of S
Orders(S) ==
    {f \in [1..Cardinality(S) -> S] : \A i, j \in DOMAIN f : f[i] = f[j] => i = j}

\* A faulty variant of unmountInstance, which leaves the retired key in the
\* registry; C8's formula must tell it from unmountInstance.
unmountInstanceKeep(st, key) == Hook(st, "OnUnmount", st.instances[key])

\* delete(r.instances, key); delete(r.initialized, key)
dropInstance(st, key) ==
    IF st.dead THEN st
    ELSE [st EXCEPT !.instances = [k \in (DOMAIN @) \ {key} |-> @[k]],
                    !.initialized = @ \ {key}]

\* cleanupUnmountedComponents for one retired key
unmountInstance(st, key) ==
    dropInstance(Hook(st, "OnUnmount", st.instances[key]), key)

\* r.activeKeys = make(map[string]bool)
resetActive(st) == IF st.dead THEN st ELSE [st EXCEPT !.activeKeys = {}]

\* cleanupUnmountedComponents, visiting the retired keys in the order ord
cleanupUnmountedComponents(st, ord) ==
    LET visited[i \in 0..Len(ord)] ==
            IF i = 0 THEN st ELSE unmountInstance(visited[i - 1], ord[i])
    IN resetActive(visited[Len(ord)])

\* RenderRoot: OnMount of the root when "__root__" is not initialized
mountRoot(st) ==
    IF RootInitKey \notin st.initialized
    THEN markInitialized(Hook(st, "OnMount", currentComponent), RootInitKey)
    ELSE st

\* RenderRoot: the stamp of the component key on the root vnode, which is a
\* nil dereference when Render returned nil
stampRoot(r) ==
    IF r.vnode = NilVNode
    THEN [st |-> Kill(Pop(r.st)), vnode |-> NilVNode]
    ELSE [st |-> Pop(r.st), vnode |-> [r.vnode EXCEPT !.ComponentKey = currentKey]]

\* RenderRoot up to the stamp of the component key (currentComponent is not
\* nil)
renderRootTree(st, plan) ==
    stampRoot(
        Render(
            Hook(mountRoot(
                     Call(Push([st EXCEPT !.activeKeys = {}], currentComponent),
                          "RenderRoot", currentComponent, <<NoObj, currentKey>>, NoObj)),
                 "OnParametersSet", currentComponent),
            currentComponent, RootShape(currentComponent, plan)))

\* which of the three native steps RenderRoot takes
RootBranch(newVDOM) ==
    IF prevVDOM = NilVNode THEN "render"
    ELSE IF prevVDOM.ComponentKey # newVDOM.ComponentKey THEN "replace"
    ELSE "patch"

\* the object RenderRoot calls OnUnmount on when the component key changed
unmountedRoot == currentComponent

\* Clear followed by RenderToSelector, in the log
logReplace(st) == Hook(Hook(st, "Clear", NoObj), "Materialize", NoObj)

\* RenderRoot reaches its native step
reachNative(st) == IF st.dead THEN st ELSE [st EXCEPT !.stage = "native"]

\* r.initialized = make(map[string]bool)
resetInitialized(st) == IF st.dead THEN st ELSE [st EXCEPT !.initialized = {}]

\* RenderRoot after the tree is built: the native step, the unmount of the
\* root on a key change and the reset of the initialization map
applyRootTree(st, newVDOM) ==
    IF st.dead THEN st
    ELSE IF RootBranch(newVDOM) = "render" THEN logReplace(reachNative(st))
    ELSE IF RootBranch(newVDOM) = "replace"
    THEN resetInitialized(Hook(logReplace(reachNative(st)), "OnUnmount", unmountedRoot))
    ELSE Hook(reachNative(st), "Patch", NoObj)

\* RenderRoot stores the tree: r.prevVDOM and r.instanceVDOMCache
storeRootTree(st) == IF st.dead THEN st ELSE [st EXCEPT !.stage = "cleanup"]

\* A faulty variant of setCurrent, which stores the key and keeps the
\* component; C32's formula must tell it from setCurrent.
setCurrentKeyOnly(comp, key) ==
    /\ currentComponent' = currentComponent
    /\ currentKey' = key
    /\ UNCHANGED <<mount, prevVDOM, gen, crashed, last, domVars, instances,
                   initialized, activeKeys, renderingStack, instanceVDOMCache,
                   hooks, nextObj, passes>>

\* the body of SetCurrentComponent between Lock and Unlock
setCurrent(comp, key) ==
    /\ currentComponent' = comp
    /\ currentKey' = key
    /\ UNCHANGED <<mount, prevVDOM, gen, crashed, last, domVars, instances,
                   initialized, activeKeys, renderingStack, instanceVDOMCache,
                   hooks, nextObj, passes>>

SetCurrentComponent(comp, key) ==
    /\ ~crashed /\ mu = NoTask
    /\ currentComponent # comp \/ currentKey # key
    /\ setCurrent(comp, key)
    /\ UNCHANGED <<envVars, concVars>>

\* the body of RenderRoot with no current component:
\* r.currentComponent.Render(r) on a nil interface panics, after activeKeys
\* was reset
renderRootNil ==
    /\ activeKeys' = {}
    /\ crashed' = TRUE
    /\ UNCHANGED <<mount, prevVDOM, gen, last, domVars, instances, initialized,
                   currentComponent, currentKey, renderingStack,
                   instanceVDOMCache, hooks, nextObj, passes>>

RenderRootNil ==
    /\ ~crashed /\ mu = NoTask /\ currentComponent = NoObj
    /\ renderRootNil
    /\ UNCHANGED <<envVars, concVars>>

\* the native step of RenderRoot on the mount
nativeRoot(newVDOM) ==
    IF RootBranch(newVDOM) = "patch"
    THEN Patch(mount, prevVDOM, newVDOM, focus, gen + 1)
    ELSE RenderTo(Clear(mount), newVDOM, gen + 1)

\* RenderRoot: what the pass leaves in the renderer and in the mount; a pass
\* a panic unwinds leaves what it had done up to the panic
\* (the trees of Shapes hold no text node, so the native step of a root pass
\* does not panic)
commitRoot(newVDOM, done) ==
    /\ mount' = IF done.stage = "build" THEN mount ELSE nativeRoot(newVDOM)
    /\ prevVDOM' = IF done.stage = "cleanup" THEN newVDOM ELSE prevVDOM
    /\ instanceVDOMCache' = IF done.stage = "cleanup"
                            THEN Put(instanceVDOMCache, currentComponent, newVDOM)
                            ELSE instanceVDOMCache
    /\ instances' = done.instances
    /\ initialized' = done.initialized
    /\ activeKeys' = done.activeKeys
    /\ renderingStack' = done.renderingStack
    /\ hooks' = done.hooks
    /\ nextObj' = done.nextObj
    /\ last' = [op |-> IF done.stage = "build" THEN "abort" ELSE RootBranch(newVDOM),
                old |-> prevVDOM, pre |-> mount, fid |-> focus]
    /\ crashed' = (done.dead \/ AnyFault(mount'))

\* RenderRoot from the native step on; the map range of the cleanup visits
\* the retired keys in any order
finishRoot(newVDOM, applied) ==
    \E ord \in Orders(Retired(applied)) :
        commitRoot(newVDOM, cleanupUnmountedComponents(storeRootTree(applied), ord))

\* RenderRoot once the tree is built
reconcileRoot(built) ==
    finishRoot(built.vnode, applyRootTree(built.st, built.vnode))

\* the body of RenderRoot between Lock and Unlock, for a current component;
\* flt is the hook call that panics in this pass, if any
renderRoot(plan, flt) ==
    /\ reconcileRoot(renderRootTree(PassStateOf(flt), plan))
    /\ gen' = gen + 1
    /\ passes' = passes + 1
    /\ UNCHANGED <<domVars, currentComponent, currentKey>>

RenderRoot(plan) ==
    /\ ~crashed /\ mu = NoTask /\ currentComponent # NoObj /\ passes < MaxPasses
    /\ renderRoot(plan, NoFault)
    /\ UNCHANGED <<envVars, concVars>>

NextRen ==
    \/ \E comp \in RootComponents, key \in RootKeys : SetCurrentComponent(comp, key)
    \/ RenderRootNil
    \/ \E plan \in Plans : RenderRoot(plan)

SpecRen == Init /\ [][NextRen]_vars

(***************************************************************************)
(* ReRenderSlot and reRenderFull.                                          *)
(***************************************************************************)
\* the value a call returned last: "none" before any call, "nil", "error"
Returns == {"none", "nil", "error"}

\* the components ReRenderSlot may be handed: nil, a root component or a
\* component of the registry
SlotParents == {NoObj} \cup RootComponents \cup {instances[k] : k \in DOMAIN instances}

\* Render of a slot parent in a pass
SlotShape(o, plan) ==
    IF o \in RootComponents THEN RootShape(o, plan)
    ELSE [ChildShape(LocalKeys[1], plan) EXCEPT !.nil = plan.nil]

\* prevParentVDOM != nil
cachedTree(slotParent) ==
    /\ slotParent \in DOMAIN instanceVDOMCache
    /\ instanceVDOMCache[slotParent] # NilVNode

\* A faulty variant of prevParentVDOM, which diffs against the tree of the
\* root scope; C27's formula must tell it from prevParentVDOM.
prevParentVDOMRoot(slotParent) == prevVDOM

\* ReRenderSlot, step 1: the tree the cache holds for the slot parent
prevParentVDOM(slotParent) == instanceVDOMCache[slotParent]

\* ReRenderSlot, step 2: Render of the slot parent on the rendering stack
renderSlotTree(st, slotParent, shape) ==
    popRendered(Render(Push(Call(st, "ReRenderSlot", slotParent, NoKey, NoObj),
                            slotParent),
                       slotParent, shape))

\* reRenderFull: Render of the component
renderFullTree(st, component, shape) ==
    Render(Call(Call(st, "ReRenderSlot", component, NoKey, NoObj),
                "reRenderFull", component, NoKey, NoObj),
           component, shape)

\* what a slot pass leaves in the renderer
commitSlotState(st) ==
    /\ instances' = st.instances
    /\ initialized' = st.initialized
    /\ activeKeys' = st.activeKeys
    /\ renderingStack' = st.renderingStack
    /\ hooks' = st.hooks
    /\ nextObj' = st.nextObj

\* ReRenderSlot, steps 3 and 4, or the error when Render returned nil
patchSlot(slotParent, r) ==
    IF r.vnode = NilVNode
    THEN /\ commitSlotState(r.st)
         /\ ret' = "error"
         /\ last' = [op |-> "abort", old |-> prevVDOM, pre |-> mount, fid |-> focus]
         /\ UNCHANGED <<mount, prevVDOM, instanceVDOMCache, crashed>>
    ELSE /\ commitSlotState(Hook(r.st, "Patch", NoObj))
         /\ mount' = Patch(mount, prevParentVDOM(slotParent), r.vnode, focus, gen + 1)
         /\ instanceVDOMCache' = Put(instanceVDOMCache, slotParent, r.vnode)
         /\ ret' = "nil"
         /\ last' = [op |-> "slot", old |-> prevParentVDOM(slotParent),
                     pre |-> mount, fid |-> focus]
         /\ crashed' = AnyFault(mount')
         /\ UNCHANGED prevVDOM

\* A faulty variant of cacheFullTree, which caches nothing; C28's formula
\* must tell it from cacheFullTree.
cacheFullTreeNever(component, vnode) == instanceVDOMCache

\* reRenderFull: r.instanceVDOMCache[component] = newVDOM
cacheFullTree(component, vnode) == Put(instanceVDOMCache, component, vnode)

\* reRenderFull after Render
renderFull(component, r) ==
    IF r.vnode = NilVNode
    THEN /\ commitSlotState(r.st)
         /\ ret' = "error"
         /\ last' = [op |-> "abort", old |-> prevVDOM, pre |-> mount, fid |-> focus]
         /\ UNCHANGED <<mount, prevVDOM, instanceVDOMCache, crashed>>
    ELSE /\ commitSlotState(Hook(r.st, "Materialize", NoObj))
         /\ mount' = RenderTo(mount, r.vnode, gen + 1)
         /\ instanceVDOMCache' = cacheFullTree(component, r.vnode)
         /\ prevVDOM' = r.vnode
         /\ ret' = "nil"
         /\ last' = [op |-> "full", old |-> prevVDOM, pre |-> mount, fid |-> focus]
         /\ crashed' = AnyFault(mount')

\* the body of ReRenderSlot between Lock and Unlock
reRenderSlot(slotParent, plan) ==
    /\ IF slotParent = NoObj
       THEN /\ ret' = "error"
            /\ UNCHANGED <<mount, prevVDOM, crashed, last, instances, initialized,
                           activeKeys, renderingStack, instanceVDOMCache, hooks,
                           nextObj>>
       ELSE IF cachedTree(slotParent)
       THEN patchSlot(slotParent,
                      renderSlotTree(PassState, slotParent, SlotShape(slotParent, plan)))
       ELSE renderFull(slotParent,
                       renderFullTree(PassState, slotParent, SlotShape(slotParent, plan)))
    /\ gen' = gen + 1
    /\ slots' = slots + 1
    /\ UNCHANGED <<domVars, currentComponent, currentKey, passes>>

ReRenderSlot(slotParent, plan) ==
    /\ ~crashed /\ mu = NoTask /\ slots < MaxSlotPasses
    /\ reRenderSlot(slotParent, plan)
    /\ UNCHANGED <<build, navManager, hasMount, navs, faults, concVars>>

\* the passes of the slot specification: the plans of a root pass and the
\* pass in which Render returns nil
SlotPlans ==
    {pl \in Plans : (pl.keys = <<>> /\ ~pl.deep) \/ pl.keys = <<LocalKeys[1]>>}
        \cup {NilPlan}

\* a root pass of the specifications that bound the root passes by
\* MaxShortPasses
ShortRenderRoot(plan) == passes < MaxShortPasses /\ RenderRoot(plan)

NextSlot ==
    \/ \E comp \in RootComponents, key \in RootKeys : SetCurrentComponent(comp, key)
    \/ RenderRootNil
    \/ \E plan \in SlotPlans : ShortRenderRoot(plan)
    \/ \E slotParent \in SlotParents, plan \in SlotPlans : ReRenderSlot(slotParent, plan)

SpecSlot == Init /\ [][NextSlot]_vars

(***************************************************************************)
(* Claims about the mutation applier (checked under SpecDom).              *)
(***************************************************************************)
\* the state right after a Patch that had a native root to work on
Patched == last.op = "patch" /\ Len(last.pre) > 0

\* the document createElement builds for the tree t, as the user sees it
Materialized(t) == ViewAll(RenderTo(<<>>, t, 0))

\* the document before the last patch was the one createElement builds for
\* the tree patched from
WasFresh == ViewAll(last.pre) = Materialized(last.old)

\* a native node as the renderer's writes see it: everything but listeners
RECURSIVE Written(_)
Written(d) ==
    [id |-> d.id, tag |-> d.tag, attrs |-> d.attrs, value |-> d.value,
     text |-> d.text, vw |-> d.vw, tw |-> d.tw, aw |-> d.aw, cw |-> d.cw,
     kids |-> [i \in DOMAIN d.kids |-> Written(d.kids[i])]]

\* C1: patching a document that equals createElement(prev), with nothing
\* focused, leaves a document that equals createElement(next).
C1_PatchYieldsNext ==
    (Patched /\ WasFresh /\ last.fid = NoId)
        => (~crashed /\ ViewAll(mount) = Materialized(prevVDOM))

\* C2: a patch never writes the value of the input or textarea that holds
\* the focus.
C2_FocusedValueNeverWritten ==
    (Patched /\ last.fid # NoId /\ focus = last.fid
        /\ NodeAt(last.pre, last.fid).tag \in ValueTags)
        => NodeAt(mount, focus).vw = NodeAt(last.pre, focus).vw

\* patchElement ran on a native input or textarea without focus, with an
\* old and a new node of that tag
UnfocusedValuePatch ==
    /\ Patched
    /\ last.old.Tag = prevVDOM.Tag /\ prevVDOM.Tag \in ValueTags
    /\ last.pre[1].tag \in ValueTags
    /\ last.fid # last.pre[1].id

C4_SameTreeNoWrites ==
    (Patched /\ WasFresh /\ last.old = prevVDOM)
        => (~crashed /\ [i \in DOMAIN mount |-> Written(mount[i])]
                          = [i \in DOMAIN last.pre |-> Written(last.pre[i])])

\* C5: when the tags of the old and the new node differ, the old native
\* node is replaced by the subtree createElement builds for the new node.
C5_TagChangeReplaces ==
    (Patched /\ last.old.Tag # prevVDOM.Tag)
        => /\ mount[1].id # last.pre[1].id
           /\ mount[1].id[1] = gen
           /\ ViewAll(mount) = Materialized(prevVDOM)

\* patchChildren ran on a native element that held one native child per old
\* child (and no text of its own)
ChildrenPatch ==
    /\ Patched /\ ~crashed
    /\ last.old.Tag = prevVDOM.Tag /\ prevVDOM.Tag = "div"
    /\ last.old.Content = "" /\ prevVDOM.Content = ""
    /\ last.pre[1].tag = "div"
    /\ Len(last.pre[1].kids) = Len(last.old.Children)

\* C6: from m old to n new children, n-m created nodes are appended at the
\* tail (m<n) or m-n native children are removed from the tail (m>n), and
\* the first min(m,n) native children are reconciled in place, index by
\* index (a child whose tag is unchanged keeps its identity).
C6_ChildrenGrowShrink ==
    ChildrenPatch =>
        LET m == Len(last.old.Children)
            n == Len(prevVDOM.Children)
            before == last.pre[1].kids
            after == mount[1].kids
        IN /\ Len(after) = n
           /\ \A i \in 1..Min(m, n) :
                 last.old.Children[i].Tag = prevVDOM.Children[i].Tag
                     => after[i].id = before[i].id
           /\ \A i \in (m + 1)..n :
                 /\ after[i].id[1] = gen
                 /\ View(after[i]) = View(createElement(prevVDOM.Children[i], 0, <<>>))
(***************************************************************************)
(* Claims about the instance registry and the lifecycle hooks (checked     *)
(* under SpecRen).  They read the log of the calls the renderer made.      *)
(***************************************************************************)
HookAt(h) == {i \in DOMAIN hooks : hooks[i].h = h}

\* the key of entry i is resolved in every pass from the pass of i to the
\* pass of j
ResolvedThroughout(i, j) ==
    \A q \in hooks[i].p .. hooks[j].p :
        \E m \in HookAt("RenderChild") : hooks[m].k = hooks[i].k /\ hooks[m].p = q

\* C7: when a composite key is resolved by RenderChild in each of N
\* consecutive root passes, every resolution renders the instance stored at
\* the first one, and the candidates of the later passes are never stored in
\* the registry.
C7_InstanceIdentityStable ==
    \A i, j \in HookAt("RenderChild") :
        (i < j /\ hooks[i].k = hooks[j].k /\ ResolvedThroughout(i, j))
            => /\ hooks[j].o = hooks[i].o
               /\ hooks[j].c # hooks[j].o
               /\ \A k \in DOMAIN instances : instances[k] # hooks[j].c

\* a key resolved in the passes 1, 2 and 3, stored at the first
C7_Witness ==
    \E i, j \in HookAt("RenderChild") :
        /\ hooks[i].p = 1 /\ hooks[j].p = MaxPasses /\ hooks[i].k = hooks[j].k
        /\ ResolvedThroughout(i, j)
        /\ hooks[i].o = hooks[i].c
        /\ hooks[j].o = hooks[i].o
        /\ hooks[i].k \in DOMAIN instances /\ instances[hooks[i].k] = hooks[i].o

\* the instances RenderChild rendered
Resolved == {hooks[i].o : i \in HookAt("RenderChild")}

\* the passes in which RenderChild rendered the instance o
PassesOf(o) == {hooks[i].p : i \in {n \in HookAt("RenderChild") : hooks[n].o = o}}

LastPassOf(o) == CHOOSE p \in PassesOf(o) : \A q \in PassesOf(o) : q <= p

Unmounts(o) == {i \in HookAt("OnUnmount") : hooks[i].o = o}

\* the native mutations of pass p, in the log
NativeSteps(p) ==
    {i \in DOMAIN hooks : hooks[i].h \in {"Clear", "Materialize", "Patch"} /\ hooks[i].p = p}

\* C8: an instance whose key is resolved in the root passes 1..k and not in
\* pass k+1 receives exactly one OnUnmount call, made in the cleanup of pass
\* k+1 after the native mutations of that pass; none in the passes 1..k and
\* none in a later pass.
C8_UnmountExactlyOnce ==
    \A o \in Resolved :
        IF passes > LastPassOf(o)
        THEN \E i \in Unmounts(o) :
                /\ Unmounts(o) = {i}
                /\ hooks[i].p = LastPassOf(o) + 1
                /\ NativeSteps(hooks[i].p) # {}
                /\ \A n \in NativeSteps(hooks[i].p) : n < i
        ELSE Unmounts(o) = {}

\* an instance rendered in the passes 1 and 2 and unmounted in pass 3
C8_Witness ==
    \E o \in Resolved :
        /\ PassesOf(o) = {1, 2} /\ passes = 3
        /\ \E i \in Unmounts(o) : Unmounts(o) = {i} /\ hooks[i].p = 3

\* C9: in a root pass whose previous root tree has scope key A and whose new
\* root tree has scope key B # A, the mount point is cleared and the new tree
\* materialized, with no patch, and OnUnmount is called on the outgoing root
\* (the component that rendered the tree with key A), not on the component
\* that rendered the tree with key B.
C9_KeyChangeUnmountsOutgoingRoot ==
    \A i, j \in HookAt("RenderRoot") :
        (hooks[j].p = hooks[i].p + 1 /\ hooks[i].k # hooks[j].k)
            => /\ \E n \in HookAt("Clear") : hooks[n].p = hooks[j].p
               /\ \E n \in HookAt("Materialize") : hooks[n].p = hooks[j].p
               /\ \A n \in HookAt("Patch") : hooks[n].p # hooks[j].p
               /\ \E n \in Unmounts(hooks[i].o) : hooks[n].p = hooks[j].p
               /\ hooks[j].o # hooks[i].o
                    => \A n \in Unmounts(hooks[j].o) : hooks[n].p # hooks[j].p

\* C10: for every instance, root or child, OnMount is called exactly once
\* and before the first call of its Render, whatever the sequence of root
\* passes, scope key changes included.
C10_MountOnceBeforeFirstRender ==
    \A i \in HookAt("Render") :
        \E m \in HookAt("OnMount") :
            /\ hooks[m].o = hooks[i].o
            /\ m < i
            /\ \A n \in HookAt("OnMount") : hooks[n].o = hooks[i].o => n = m

(***************************************************************************)
(* Root passes in which a lifecycle hook panics, in the two builds.        *)
(***************************************************************************)
\* a root pass in which the hook call flt panics
FaultyRenderRoot(plan, flt) ==
    /\ ~crashed /\ mu = NoTask /\ currentComponent # NoObj
    /\ passes < MaxShortPasses /\ faults < MaxFaults
    /\ renderRoot(plan, flt)
    /\ faults' = faults + 1
    /\ UNCHANGED <<build, navManager, hasMount, ret, slots, navs, concVars>>

\* the renderer of either build
InitFlt ==
    /\ InitState
    /\ build \in {"prod", "dev"}
    /\ navManager = TRUE
    /\ hasMount = TRUE

\* the passes of the fault specification: no child, two siblings, a child
\* with a child of its own
FltPlans ==
    {pl \in Plans : \/ ~pl.deep /\ pl.keys \in {<<>>, <<LocalKeys[1], LocalKeys[2]>>}
                    \/ pl.deep /\ pl.keys = <<LocalKeys[1]>>}

NextFlt ==
    \/ \E comp \in RootComponents, key \in RootKeys : SetCurrentComponent(comp, key)
    \/ \E plan \in FltPlans : ShortRenderRoot(plan)
    \/ \E plan \in FltPlans, flt \in Faults \ {NoFault} : FaultyRenderRoot(plan, flt)

SpecFlt == InitFlt /\ [][NextFlt]_vars

(***************************************************************************)
(* Goroutines calling ReRender, ReRenderSlot and SetCurrentComponent.      *)
(* Each of the three methods starts with r.mu.Lock() and ends with the     *)
(* deferred r.mu.Unlock() (ReRender through RenderRoot).  pc[t] is where   *)
(* the goroutine t is: "idle" outside the renderer, "waiting" in           *)
(* r.mu.Lock(), "locked" before the body of the method, "unlocking" after  *)
(* it and before the deferred Unlock.                                      *)
(***************************************************************************)
\* the calls a goroutine may make
ConcCalls ==
    {[name |-> "ReRender", comp |-> NoObj, key |-> ""]}
        \cup {[name |-> "ReRenderSlot", comp |-> c, key |-> ""] : c \in RootComponents}
        \cup {[name |-> "SetCurrentComponent", comp |-> c, key |-> k] :
                 c \in RootComponents, k \in RootKeys}

\* what the Render functions do in the passes of the goroutines
ConcPlans == {pl \in Plans : ~pl.deep /\ pl.keys \in {<<>>, <<LocalKeys[1]>>}}

\* the call, in the log
logRequest(t, call) ==
    Append(hooks, [h |-> "Request", o |-> t, k |-> <<call.comp, call.name>>,
                   c |-> NoObj, p |-> 0, f |-> FALSE])

\* the goroutine t calls a method of the renderer and arrives at r.mu.Lock()
Request(t, call) ==
    /\ ~crashed /\ pc[t] = "idle" /\ calls < MaxCalls
    /\ pc' = [pc EXCEPT ![t] = "waiting"]
    /\ op' = [op EXCEPT ![t] = call]
    /\ calls' = calls + 1
    /\ hooks' = logRequest(t, call)
    /\ UNCHANGED <<mount, prevVDOM, gen, crashed, last, domVars, instances,
                   initialized, activeKeys, currentComponent, currentKey,
                   renderingStack, instanceVDOMCache, nextObj, passes, envVars, mu,
                   appVars>>

\* A faulty variant of canLock, a lock that never blocks; C13's formula
\* must tell it from canLock.
canLockAlways(m) == TRUE

\* sync.Mutex: Lock returns only when the mutex is unlocked
canLock(m) == m = NoTask

\* r.mu.Lock() returns in the goroutine t
Acquire(t) ==
    /\ ~crashed /\ pc[t] = "waiting" /\ canLock(mu)
    /\ mu' = t
    /\ pc' = [pc EXCEPT ![t] = "locked"]
    /\ UNCHANGED <<mount, prevVDOM, gen, crashed, last, domVars, renVars, envVars,
                   op, calls, appVars>>

\* the body of the method the goroutine t called, between Lock and Unlock
Run(t, plan) ==
    /\ ~crashed /\ pc[t] = "locked"
    /\ IF op[t].name = "ReRender"
       THEN /\ currentComponent # NoObj
            /\ renderRoot(plan, NoFault)
            /\ UNCHANGED envVars
       ELSE IF op[t].name = "ReRenderSlot"
       THEN /\ reRenderSlot(op[t].comp, plan)
            /\ UNCHANGED <<build, navManager, hasMount, navs, faults>>
       ELSE /\ setCurrent(op[t].comp, op[t].key)
            /\ UNCHANGED envVars
    /\ pc' = [pc EXCEPT ![t] = "unlocking"]
    /\ UNCHANGED <<mu, op, calls, appVars>>

\* A faulty variant of unlock, which leaves the mutex locked; C14's formula
\* must tell it from unlock.
unlockNever(m, t) == m

\* sync.Mutex: Unlock by the holder
unlock(m, t) == IF m = t THEN NoTask ELSE m

\* the deferred r.mu.Unlock() of the goroutine t, and the return
Release(t) ==
    /\ pc[t] = "unlocking"
    /\ mu' = unlock(mu, t)
    /\ pc' = [pc EXCEPT ![t] = "idle"]
    /\ op' = [op EXCEPT ![t] = NoCall]
    /\ UNCHANGED <<mount, prevVDOM, gen, crashed, last, domVars, renVars, envVars,
                   calls, appVars>>

\* a renderer whose root component was set before the goroutines start
InitConc ==
    /\ InitFields
    /\ currentComponent = RootA
    /\ currentKey = "/a"
    /\ build = "prod"
    /\ navManager = TRUE
    /\ hasMount = TRUE

NextConc ==
    \/ \E t \in Tasks, call \in ConcCalls : Request(t, call)
    \/ \E t \in Tasks : Acquire(t)
    \/ \E t \in Tasks, plan \in ConcPlans : Run(t, plan)
    \/ \E t \in Tasks : Release(t)

SpecConc == InitConc /\ [][NextConc]_vars

\* when the body of the method of the goroutine t can run: whenever t is
\* before it, since the renderer of InitConc has a root component and its
\* passes do not panic
RunEnabled(t) == pc[t] = "locked" /\ ~crashed /\ currentComponent # NoObj

\* weak fairness of the body, with RunEnabled(t) for ENABLED
RunFair(t) ==
    \/ []<>(~RunEnabled(t))
    \/ []<><<\E plan \in ConcPlans : Run(t, plan)>>_vars

\* a goroutine that holds the lock runs the body and the deferred Unlock,
\* and sync.Mutex hands the lock to a goroutine that keeps waiting for it
ConcFairness ==
    \A t \in Tasks :
        /\ RunFair(t)
        /\ WF_vars(Release(t))
        /\ SF_vars(Acquire(t))

SpecConcFair == SpecConc /\ ConcFairness

(***************************************************************************)
(* Navigate.  The navigation manager is an interface the application       *)
(* implements; its Navigate is a call out of the renderer, whose result is *)
(* any of nil and an error.                                                *)
(***************************************************************************)
Paths == {"/a", "/b", "/missing"}

\* A faulty variant of navigateResult, which reports what a router would
\* report when there is none; C19's formula must tell it from
\* navigateResult.
navigateResultRouted(hasRouter, routed) == routed

\* the error Navigate returns: its own when r.navManager is nil, else the
\* result of r.navManager.Navigate(path)
navigateResult(hasRouter, routed) == IF ~hasRouter THEN "error" ELSE routed

Navigate(path, routed) ==
    /\ ~crashed /\ navs < MaxNavs
    /\ ret' = navigateResult(navManager, routed)
    /\ navs' = navs + 1
    /\ UNCHANGED <<mount, prevVDOM, gen, crashed, last, domVars, renVars, build,
                   navManager, hasMount, slots, faults, concVars>>

\* a renderer created with or without a navigation manager
InitNav ==
    /\ InitState
    /\ build = "prod"
    /\ navManager \in BOOLEAN
    /\ hasMount = TRUE

\* the passes of the navigation specification
NavPlans == SlotPlans \ {NilPlan}

NextNav ==
    \/ \E comp \in RootComponents, key \in RootKeys : SetCurrentComponent(comp, key)
    \/ \E plan \in NavPlans : ShortRenderRoot(plan)
    \/ \E slotParent \in SlotParents, plan \in NavPlans : ReRenderSlot(slotParent, plan)
    \/ \E path \in Paths, routed \in {"nil", "error"} : Navigate(path, routed)

SpecNav == InitNav /\ [][NextNav]_vars

(***************************************************************************)
(* The entry points of the vdom package called with a selector that may    *)
(* match no element and with trees that may be nil.  hasMount says whether *)
(* querySelector finds the mount element.                                  *)
(***************************************************************************)
EdgeTrees ==
    {NilVNode, VNode("div", NoAttrs, <<>>, "a"), VNode("div", NoAttrs, <<>>, "b"),
     VNode("input", NoAttrs, <<>>, "a")}

\* what a call of an entry point leaves in last
EdgeCall(name, oldVNode, newVNode) ==
    [op |-> name, old |-> oldVNode, new |-> newVNode, pre |-> mount,
     fid |-> focus, found |-> hasMount]

\* Patch dereferences both trees for its debug line before it tests them
PatchPanics(oldVNode, newVNode) == oldVNode = NilVNode \/ newVNode = NilVNode

\* the frame of an entry point call
edgeFrame(name, oldVNode, newVNode) ==
    /\ ~crashed /\ gen <= MaxPatches
    /\ gen' = gen + 1
    /\ last' = EdgeCall(name, oldVNode, newVNode)
    /\ focus' = KeepFocus(focus, mount')
    /\ UNCHANGED <<prevVDOM, edits, renVars, envVars, concVars>>

ClearSelector ==
    /\ mount' = IF hasMount THEN Clear(mount) ELSE mount
    /\ UNCHANGED crashed
    /\ edgeFrame("Clear", NilVNode, NilVNode)

RenderToSelector(n) ==
    /\ mount' = IF n = NilVNode \/ ~hasMount THEN mount ELSE RenderTo(mount, n, gen + 1)
    /\ UNCHANGED crashed
    /\ edgeFrame("RenderToSelector", NilVNode, n)

PatchSelector(oldVNode, newVNode) ==
    /\ IF PatchPanics(oldVNode, newVNode)
       THEN crashed' = TRUE /\ mount' = mount
       ELSE /\ mount' = IF hasMount THEN Patch(mount, oldVNode, newVNode, focus, gen + 1)
                        ELSE mount
            /\ crashed' = AnyFault(mount')
    /\ edgeFrame("Patch", oldVNode, newVNode)

\* patchElement on the first child of the mount element, which is
\* undefined when there is none
PatchElement(oldVNode, newVNode) ==
    /\ mount' = IF ~hasMount \/ Len(mount) = 0
                THEN mount
                ELSE [mount EXCEPT ![1] =
                         patchElement(mount[1], oldVNode, newVNode, focus, gen + 1, <<>>)]
    /\ crashed' = AnyFault(mount')
    /\ edgeFrame("patchElement", oldVNode, newVNode)

\* the mount element is added to the document
MountAppears ==
    /\ ~crashed /\ ~hasMount
    /\ hasMount' = TRUE
    /\ UNCHANGED <<mount, prevVDOM, gen, crashed, last, domVars, renVars, build,
                   navManager, ret, slots, navs, faults, concVars>>

InitEdge ==
    /\ InitState
    /\ build = "prod"
    /\ navManager = TRUE
    /\ hasMount \in BOOLEAN

NextEdge ==
    \/ ClearSelector
    \/ \E n \in EdgeTrees : RenderToSelector(n)
    \/ \E o \in EdgeTrees, n \in EdgeTrees : PatchSelector(o, n)
    \/ \E o \in EdgeTrees, n \in EdgeTrees : PatchElement(o, n)
    \/ MountAppears

SpecEdge == InitEdge /\ [][NextEdge]_vars

(***************************************************************************)
(* Claims about the order of the calls of a pass.                          *)
(***************************************************************************)
\* the log entry just before entry i is OnParametersSet of the same object
\* in the same pass
ParametersSetJustBefore(i) ==
    /\ i > 1
    /\ hooks[i - 1].h = "OnParametersSet"
    /\ hooks[i - 1].o = hooks[i].o
    /\ hooks[i - 1].p = hooks[i].p

\* C11: every Render call of the renderer, in a root pass, in RenderChild, in
\* ReRenderSlot or in reRenderFull, is immediately preceded in the same pass
\* by OnParametersSet of the same instance.
C11_ParametersSetBeforeEveryRender ==
    \A i \in HookAt("Render") : ParametersSetJustBefore(i)

\* the calls of hook h on the object o in pass p
CallsOf(h, o, p) == {i \in HookAt(h) : hooks[i].o = o /\ hooks[i].p = p}

\* the objects and the passes of the log
LoggedObjects == {hooks[i].o : i \in DOMAIN hooks}

LoggedPasses == {hooks[i].p : i \in DOMAIN hooks}

\* within a pass: OnMount of an instance before its OnParametersSet, and
\* each Render of it after an OnParametersSet
LifecycleOrdered ==
    \A o \in LoggedObjects, p \in LoggedPasses :
        /\ \A m \in CallsOf("OnMount", o, p), s \in CallsOf("OnParametersSet", o, p) : m < s
        /\ \A r \in CallsOf("Render", o, p) :
               \E s \in CallsOf("OnParametersSet", o, p) : s < r

\* OnMount of an instance is called in no pass later than the first pass
\* that calls one of its hooks or its Render
MountInFirstPassOnly ==
    \A m \in HookAt("OnMount") :
        \A j \in HookAt("OnParametersSet") \cup HookAt("Render") \cup HookAt("OnMount") :
            hooks[j].o = hooks[m].o => hooks[j].p >= hooks[m].p

\* every OnUnmount of a pass comes after the native mutations of the pass
UnmountAfterNative ==
    \A u \in HookAt("OnUnmount") :
        /\ NativeSteps(hooks[u].p) # {}
        /\ \A n \in NativeSteps(hooks[u].p) : n < u

\* C12: within one render pass the calls on an instance occur in the order
\* OnMount (in the first pass of the instance only), OnParametersSet,
\* Render, and every OnUnmount of the pass comes after the native mutation
\* step of the pass.
C12_LifecycleOrderInPass ==
    LifecycleOrdered /\ MountInFirstPassOnly /\ UnmountAfterNative

(***************************************************************************)
(* Claims about the edge cases of the entry points.                        *)
(***************************************************************************)
\* the step is a ReRenderSlot call for a component (not nil), which the
\* first call the step logs names
SlotStep == slots' = slots + 1 /\ Len(hooks') > Len(hooks)

SlotOwner == hooks'[Len(hooks) + 1].o

\* C15: ReRenderSlot(owner) for an owner with no retained tree in the
\* per-instance cache returns a non-nil error and applies no native
\* mutation; it neither panics nor silently succeeds.
C15_SlotWithoutRetainedTreeFails ==
    [][(SlotStep /\ ~cachedTree(SlotOwner))
          => (ret' = "error" /\ mount' = mount /\ ~crashed')]_vars

\* the step is a root pass in which Render of the root returned nil
NilRootStep ==
    /\ passes' = passes + 1
    /\ \E i \in (Len(hooks) + 1)..Len(hooks') :
           hooks'[i].h = "RenderNil" /\ hooks'[i].o = currentComponent

\* C16: a root pass in which Render returns a nil tree completes without a
\* fault, and an empty placeholder element is rendered in place of the tree
\* and retained as the previous tree.
C16_NilTreeRendersPlaceholder ==
    [][NilRootStep
          => /\ ~crashed'
             /\ prevVDOM' # NilVNode /\ Len(prevVDOM'.Children) = 0
             /\ Len(mount') = 1 /\ Len(mount'[1].kids) = 0]_vars

\* a step of a renderer without root component that is no call of
\* SetCurrentComponent, ReRenderSlot or Navigate: a RenderRoot call
RootlessRenderStep ==
    /\ currentComponent = NoObj /\ currentComponent' = NoObj
    /\ UNCHANGED <<slots, navs, concVars>>

\* C17: RenderRoot on a renderer whose root component was never set
\* abandons the operation without a fault: no hook runs, no native mutation
\* is applied, the retained state is unchanged.
C17_RenderWithoutRootAbandons ==
    [][RootlessRenderStep
          => (~crashed' /\ hooks' = hooks /\ mount' = mount /\ prevVDOM' = prevVDOM
              /\ instances' = instances /\ initialized' = initialized
              /\ instanceVDOMCache' = instanceVDOMCache)]_vars

\* the last call was one of Patch, RenderToSelector and Clear with a
\* selector matching no element, or one of Patch, RenderToSelector and
\* patchElement with a nil tree
EdgeCase ==
    \/ last.op \in {"Patch", "RenderToSelector", "Clear"} /\ ~last.found
    \/ last.op \in {"Patch", "patchElement"} /\ (last.old = NilVNode \/ last.new = NilVNode)
    \/ last.op = "RenderToSelector" /\ last.new = NilVNode

\* C18: Patch, RenderToSelector and Clear with a selector that matches no
\* mount element, and Patch, RenderToSelector and patchElement with a nil
\* tree (old or new), return without a fault and without a native mutation.
C18_NoMountOrNilTreeIsNoOp ==
    EdgeCase => (~crashed /\ mount = last.pre)

\* the step is a Navigate call
NavStep == navs' = navs + 1

\* the step is a root pass or a scoped pass
PassStep == passes' = passes + 1 \/ (slots' = slots + 1 /\ hooks' # hooks)

\* C19: on a renderer created with no navigation manager, Navigate returns
\* a non-nil error for every path and changes no renderer state, and the
\* root passes and scoped passes, with the RenderChild calls they make,
\* run to their end as they do with a router: none faults and each logs
\* its calls and leaves a rendered mount.
C19_NavigateWithoutRouter ==
    [][~navManager
          => /\ NavStep => (ret' = "error" /\ ~crashed'
                            /\ UNCHANGED <<mount, prevVDOM, renVars, navManager>>)
             /\ PassStep => (~crashed' /\ Len(mount') > 0 /\ Len(hooks') > Len(hooks))]_vars

\* Navigate was called twice on a renderer without navigation manager,
\* after a root pass that rendered a child
C19_Witness ==
    /\ ~navManager /\ navs = MaxNavs /\ ret = "error"
    /\ passes > 0 /\ HookAt("RenderChild") # {}

(***************************************************************************)
(* Claims about faults in lifecycle hooks.                                 *)
(***************************************************************************)
\* a log without the marks of the panics
Unflagged(h) == [i \in DOMAIN h |-> [h[i] EXCEPT !.f = FALSE]]

\* the step is a root pass of the resilient build in which a hook panicked
CaughtFaultStep ==
    /\ build = "prod" /\ passes' = passes + 1
    /\ \E i \in (Len(hooks) + 1)..Len(hooks') : hooks'[i].f

\* the step leaves what the pass of plan leaves when no hook panics and the
\* cleanup visits the retired keys in the order ord
SameAsFaultless(built, applied, ord) ==
    /\ Unflagged(hooks')
           = Unflagged(cleanupUnmountedComponents(storeRootTree(applied), ord).hooks)
    /\ instances' = cleanupUnmountedComponents(storeRootTree(applied), ord).instances
    /\ initialized' = cleanupUnmountedComponents(storeRootTree(applied), ord).initialized
    /\ activeKeys' = {} /\ renderingStack' = renderingStack
    /\ mount' = nativeRoot(built.vnode)
    /\ prevVDOM' = built.vnode
    /\ instanceVDOMCache' = Put(instanceVDOMCache, currentComponent, built.vnode)

FaultlessOutcome(built) ==
    \E ord \in Orders(Retired(applyRootTree(built.st, built.vnode))) :
        SameAsFaultless(built, applyRootTree(built.st, built.vnode), ord)

\* C20: in the resilient build a panic inside OnMount, OnParametersSet or
\* OnUnmount of an instance is caught at that hook call: the pass makes the
\* same calls (that instance's and its siblings' Render and hooks), applies
\* the same native mutation, retains the same tree and finishes the same
\* cleanup as the pass in which no hook panics.
C20_HookFaultContained ==
    [][CaughtFaultStep
          => /\ ~crashed'
             /\ \E plan \in FltPlans :
                    FaultlessOutcome(renderRootTree(PassState, plan))]_vars

\* a pass of the resilient build in which OnMount of a child panicked and a
\* sibling was mounted and rendered afterwards, followed by the native step
C20_Witness ==
    /\ build = "prod" /\ ~crashed
    /\ \E i \in HookAt("OnMount") :
          /\ hooks[i].f /\ hooks[i].o \notin RootComponents
          /\ \E j \in HookAt("Render") :
                /\ j > i /\ hooks[j].p = hooks[i].p
                /\ hooks[j].o \notin RootComponents \cup {hooks[i].o}
          /\ \E r \in HookAt("Render") : hooks[r].o = hooks[i].o /\ hooks[r].p = hooks[i].p
          /\ \E n \in NativeSteps(hooks[i].p) : n > i

(***************************************************************************)
(* Claims about concurrent callers.                                        *)
(***************************************************************************)
\* the goroutine t is between the return of r.mu.Lock() and the deferred
\* r.mu.Unlock()
InCritical(t) == pc[t] \in {"locked", "unlocking"}

\* C13: of the goroutines calling ReRender, ReRenderSlot and
\* SetCurrentComponent on one renderer, at most one is inside its critical
\* section at any time, and it is the one that holds the lock.
C13_OneCallAtATime ==
    \A t, u \in Tasks :
        /\ (InCritical(t) /\ InCritical(u)) => t = u
        /\ InCritical(t) => mu = t

\* a goroutine waits in Lock while another is inside ReRenderSlot, after a
\* root pass
C13_Witness ==
    \E t, u \in Tasks :
        /\ pc[t] = "waiting" /\ op[t].name = "ReRender"
        /\ pc[u] = "unlocking" /\ op[u].name = "ReRenderSlot" /\ mu = u
        /\ passes > 0

\* the ReRender calls made so far, and those that have not run their pass
ReRenderRequests == {i \in HookAt("Request") : hooks[i].k[2] = "ReRender"}

PendingReRenders ==
    {t \in Tasks : pc[t] \in {"waiting", "locked"} /\ op[t].name = "ReRender"}

\* every ReRender call that is not pending has run a root pass of its own,
\* and every root pass ran to its native step
PassPerRequest ==
    /\ Cardinality(HookAt("RenderRoot")) + Cardinality(PendingReRenders)
           = Cardinality(ReRenderRequests)
    /\ passes = Cardinality(HookAt("RenderRoot"))
    /\ \A i \in HookAt("RenderRoot") : NativeSteps(hooks[i].p) # {}

\* C14: a ReRender request made while another call holds the lock waits,
\* eventually gets the lock and runs a complete root pass of its own: k
\* requests give k passes, none is dropped, merged with another or kept
\* waiting forever.
C14_EveryRequestRunsItsPass ==
    /\ []PassPerRequest
    /\ \A t \in Tasks :
           (pc[t] = "waiting" /\ op[t].name = "ReRender") ~> (pc[t] = "idle")

\* MaxCalls ReRender requests were served, one of which waited while the
\* other goroutine held the lock
C14_Witness ==
    /\ Cardinality(ReRenderRequests) = MaxCalls /\ passes = MaxCalls
    /\ \A t \in Tasks : pc[t] = "idle"
    /\ \E i, j \in ReRenderRequests, n \in HookAt("RenderRoot") :
          i < j /\ j < n /\ hooks[i].o # hooks[j].o


(***************************************************************************)
(* The HomePage component (app/internal/app/components/pages/homepage.go)  *)
(* under the Renderer of runtime/renderer.go, the renderer of the module   *)
(* the page imports.  The root component renders the page under one key    *)
(* or does not render it; the mount, prevVDOM, instances, initialized and  *)
(* activeKeys variables are the fields of that Renderer.                   *)
(***************************************************************************)
\* the key of the page (this Renderer has no parent part in its keys)
HomeKey == <<NoObj, "home">>

\* &HomePage{}: the zero value
NewHomePage == [IsLoading |-> FALSE, disposed |-> FALSE, LoadedData |-> ""]

\* the methods of *HomePage a lifecycle interface can be satisfied by
HomePageMethods == {"OnInit", "OnDispose", "OnParametersSet"}

\* HomePage.OnInit
OnInit(h) == [h EXCEPT !.IsLoading = TRUE, !.LoadedData = "Loading..."]

\* HomePage.OnDispose
OnDispose(h) == [h EXCEPT !.disposed = TRUE]

\* the method of *HomePage of the given name
HomePageMethod(name, h) ==
    IF name = "OnInit" THEN OnInit(h)
    ELSE IF name = "OnDispose" THEN OnDispose(h)
    ELSE h

\* the type assertion instance.(Cleaner) and callOnDestroy: Cleaner is the
\* interface of OnDestroy, a method *HomePage does not have, so the assertion
\* fails and nothing is called (the same holds of instance.(Unmountable) and
\* OnUnmount in RendererImpl.cleanupUnmountedComponents)
callOnDestroy(h) ==
    IF "OnDestroy" \in HomePageMethods THEN HomePageMethod("OnDestroy", h) ELSE h

\* HomePage.OnParametersSet: starts the goroutine while the page is loading
OnParametersSet(gs, o, h) ==
    IF h.IsLoading THEN Append(gs, [owner |-> o, pc |-> "sleeping"]) ELSE gs

\* the tree of the page, and of the root with or without the page
HomeTree(h) == VNode("p", NoAttrs, <<>>, h.LoadedData)

AppTree(show, h) ==
    VNode("div", NoAttrs, IF show THEN <<HomeTree(h)>> ELSE <<>>, "")

\* Renderer.RenderChild: the registry after the page was resolved
RendererRenderChild(ins) ==
    IF HomeKey \in DOMAIN ins THEN ins ELSE Put(ins, HomeKey, nextObj)

\* Renderer.RenderChild: the fields of the resolved page, OnInit on a first
\* render only
resolvedHome(ins, hm) ==
    IF HomeKey \in DOMAIN ins THEN hm[ins[HomeKey]] ELSE OnInit(NewHomePage)

\* Renderer.cleanupUnmountedComponents: the registry without the keys that
\* were not active in the pass
RendererCleanup(ins, active) == [k \in (DOMAIN ins) \cap active |-> ins[k]]

\* Renderer.cleanupUnmountedComponents: the hook of the instances it removes
RendererDestroy(hm, ins, active) ==
    [o \in DOMAIN hm |->
        IF \E k \in (DOMAIN ins) \ active : ins[k] = o
        THEN callOnDestroy(hm[o]) ELSE hm[o]]

\* Renderer.RenderRoot: fresh render without a previous tree, else Patch
RendererNative(newVDOM) ==
    IF prevVDOM = NilVNode THEN RenderTo(Clear(mount), newVDOM, gen + 1)
    ELSE Patch(mount, prevVDOM, newVDOM, focus, gen + 1)

\* Renderer.RenderRoot, for a root that renders the page (show) or not, on
\* the page fields hm and the goroutines gs
RendererRenderRoot(show, hm, gs) ==
    LET ins == IF show THEN RendererRenderChild(instances) ELSE instances
        active == IF show THEN {HomeKey} ELSE {}
        h == resolvedHome(instances, hm)
        shown == IF show THEN Put(hm, ins[HomeKey], h) ELSE hm
        newVDOM == AppTree(show, h)
    IN  /\ activeKeys' = active
        /\ initialized' = ((initialized \cup {RootInitKey}) \cup active)
                              \ ((DOMAIN ins) \ active)
        /\ instances' = RendererCleanup(ins, active)
        /\ home' = RendererDestroy(shown, ins, active)
        /\ goroutines' = IF show THEN OnParametersSet(gs, ins[HomeKey], h) ELSE gs
        /\ nextObj' = IF show /\ HomeKey \notin DOMAIN instances
                      THEN nextObj + 1 ELSE nextObj
        /\ mount' = RendererNative(newVDOM)
        /\ prevVDOM' = newVDOM
        /\ last' = [op |-> IF prevVDOM = NilVNode THEN "render" ELSE "patch",
                    old |-> prevVDOM, pre |-> mount, fid |-> focus]
        /\ crashed' = AnyFault(mount')
        /\ gen' = gen + 1
        /\ passes' = passes + 1
        /\ UNCHANGED <<domVars, currentComponent, currentKey, renderingStack,
                       instanceVDOMCache, hooks, envVars, mu, pc, op, calls>>

\* the application (main, or an event handler through StateHasChanged) asks
\* for a root pass
AppRenderRoot(show) ==
    /\ ~crashed /\ passes < MaxPasses
    /\ show => Len(goroutines) < MaxGoroutines
    /\ RendererRenderRoot(show, home, goroutines)

\* the goroutine g after time.Sleep: it returns when the page is disposed,
\* else it stores the loaded data and calls StateHasChanged, which is
\* Renderer.ReRender, a root pass
finished(g, state) == [goroutines EXCEPT ![g].pc = state]

loaded(o) ==
    [home EXCEPT ![o].IsLoading = FALSE, ![o].LoadedData = "Data loaded successfully!"]

GoroutineWakes(g, show) ==
    /\ ~crashed /\ goroutines[g].pc = "sleeping"
    /\ IF home[goroutines[g].owner].disposed
       THEN /\ goroutines' = finished(g, "returned")
            /\ UNCHANGED <<mount, prevVDOM, gen, crashed, last, domVars, renVars,
                           envVars, mu, pc, op, calls, home>>
       ELSE RendererRenderRoot(show, loaded(goroutines[g].owner),
                               finished(g, "rendered"))

InitApp == Init

NextApp ==
    \/ \E show \in BOOLEAN : AppRenderRoot(show)
    \/ \E g \in DOMAIN goroutines, show \in BOOLEAN : GoroutineWakes(g, show)

SpecApp == InitApp /\ [][NextApp]_vars

\* the HomePage instances the renderer has retired: created and no longer
\* registered
RetiredPages == {o \in DOMAIN home : \A k \in DOMAIN instances : instances[k] # o}

\* the goroutine g finishes in this step, after its page was retired
FinishesAfterRetire(g) ==
    /\ goroutines[g].pc = "sleeping"
    /\ goroutines'[g].pc # "sleeping"
    /\ goroutines[g].owner \in RetiredPages

\* C21: a goroutine of HomePage.OnParametersSet that finishes after the
\* renderer retired its page issues no render request (no root pass runs in
\* the step in which it finishes and it returns without StateHasChanged).
C21_RetiredTaskIssuesNoRender ==
    [][\A g \in DOMAIN goroutines :
          FinishesAfterRetire(g) =>
              passes' = passes /\ goroutines'[g].pc = "returned"]_vars


(***************************************************************************)
(* Claims about the keys and the props of RenderChild (checked under       *)
(* SpecRen; a Render function of the plans hands each local key to         *)
(* RenderChild at most once, so two calls of a pass with the same local    *)
(* key are calls under two different parents).                             *)
(***************************************************************************)
\* the RenderChild calls i and j are two calls of one pass with the same
\* local key
SameLocalKey(i, j) ==
    /\ i # j
    /\ hooks[i].p = hooks[j].p
    /\ hooks[i].k[2] = hooks[j].k[2]

\* C22: two RenderChild calls with the same local key under two different
\* parents resolve to two different registry entries: the keys differ, the
\* instances rendered differ, the candidate of one is not the instance of
\* the other, and the pass that resolved both unmounts neither.
C22_SameLocalKeyTwoParents ==
    \A i, j \in HookAt("RenderChild") :
        SameLocalKey(i, j)
            => /\ hooks[i].k # hooks[j].k
               /\ hooks[i].o # hooks[j].o
               /\ hooks[i].c # hooks[j].o
               /\ \A n \in Unmounts(hooks[i].o) : hooks[n].p # hooks[i].p

\* the local key x resolved under the root and under the child of the root,
\* in two passes: two entries, each reused by its own parent
C22_Witness ==
    \E i, j, m, n \in HookAt("RenderChild") :
        /\ SameLocalKey(i, j) /\ SameLocalKey(m, n)
        /\ hooks[m].p = hooks[i].p + 1
        /\ hooks[i].k[1] = currentComponent /\ hooks[j].k[1] = hooks[i].o
        /\ hooks[m].k = hooks[i].k /\ hooks[m].o = hooks[i].o
        /\ hooks[n].k = hooks[j].k /\ hooks[n].o = hooks[j].o
        /\ instances[hooks[i].k] = hooks[i].o
        /\ instances[hooks[j].k] = hooks[j].o


\* the log entry n exists and is the call of h on the instance of entry i
NextCall(i, n, h) ==
    /\ n <= Len(hooks)
    /\ hooks[n].h = h
    /\ hooks[n].o = hooks[i].o
    /\ hooks[n].p = hooks[i].p

\* the RenderChild call i found its key registered: it renders an instance
\* that is not its candidate
Reuses(i) == hooks[i].o # hooks[i].c

\* C23: every RenderChild resolution that finds its key registered calls
\* ApplyProps(candidate) on the retained instance, before OnParametersSet and
\* Render of that instance in the pass; a resolution that creates the entry
\* calls no ApplyProps, and ApplyProps is called nowhere else.
C23_PropsSyncedOnReuse ==
    /\ \A i \in HookAt("RenderChild") :
          IF Reuses(i)
          THEN /\ NextCall(i, i + 1, "ApplyProps")
               /\ hooks[i + 1].c = hooks[i].c
               /\ NextCall(i, i + 2, "OnParametersSet")
               /\ NextCall(i, i + 3, "Render")
          ELSE /\ NextCall(i, i + 1, "OnMount")
               /\ \A n \in HookAt("ApplyProps") :
                     ~(hooks[n].o = hooks[i].o /\ hooks[n].p = hooks[i].p)
    /\ \A n \in HookAt("ApplyProps") :
          /\ n > 1
          /\ hooks[n - 1].h = "RenderChild"
          /\ hooks[n - 1].o = hooks[n].o
          /\ Reuses(n - 1)

\* an instance created in one pass and reused, with its props synced from the
\* candidate, in a later root pass and in a scoped pass
C23_Witness ==
    \E i, j, m \in HookAt("RenderChild") :
        /\ ~Reuses(i) /\ Reuses(j) /\ Reuses(m)
        /\ hooks[j].o = hooks[i].o /\ hooks[m].o = hooks[i].o
        /\ hooks[i].p < hooks[j].p /\ hooks[j].p < hooks[m].p
        /\ \E n \in HookAt("ReRenderSlot") : hooks[n].p = hooks[m].p
        /\ hooks[j + 1].h = "ApplyProps" /\ hooks[j + 1].c = hooks[j].c
        /\ hooks[m + 1].h = "ApplyProps" /\ hooks[m + 1].c = hooks[m].c


(***************************************************************************)
(* Claims about the branch of a root pass and the registry it leaves.      *)
(***************************************************************************)
\* the step is a call of RenderRoot with a current component
RootPassStep ==
    /\ Len(hooks') > Len(hooks)
    /\ hooks'[Len(hooks) + 1].h = "RenderRoot"

\* the native calls the step logged
StepCalls(h) == {i \in (Len(hooks) + 1)..Len(hooks') : hooks'[i].h = h}

\* the step cleared the mount and materialized a tree, and patched nothing
ClearedAndMaterialized ==
    /\ Cardinality(StepCalls("Clear")) = 1
    /\ Cardinality(StepCalls("Materialize")) = 1
    /\ StepCalls("Patch") = {}

\* the step patched, and neither cleared nor materialized
PatchedOnly ==
    /\ Cardinality(StepCalls("Patch")) = 1
    /\ StepCalls("Clear") = {} /\ StepCalls("Materialize") = {}

\* the retained root tree after the step is the tree of the pass, stamped
\* with the current scope key
RetainsStampedTree ==
    /\ prevVDOM' # NilVNode
    /\ prevVDOM'.ComponentKey = currentKey
    /\ prevVDOM' = instanceVDOMCache'[currentComponent]
    /\ mount' # <<>>

\* C24: every root pass takes exactly one of three actions: it materializes
\* the tree when there is no previous root tree, clears and materializes when
\* the scope key of the previous tree differs from the current one, patches
\* otherwise; afterwards the retained root tree is the new tree, stamped with
\* the current scope key, and a retained root tree never becomes absent.
C24_RootPassBranches ==
    [][/\ RootPassStep =>
             /\ IF prevVDOM = NilVNode THEN ClearedAndMaterialized /\ last'.op = "render"
                ELSE IF prevVDOM.ComponentKey # currentKey
                THEN ClearedAndMaterialized /\ last'.op = "replace"
                ELSE PatchedOnly /\ last'.op = "patch"
             /\ RetainsStampedTree
       /\ prevVDOM # NilVNode => prevVDOM' # NilVNode]_vars

\* the branches and the retained tree of the root passes whose Render returns
\* a tree
C24_TreePassBranches ==
    [][/\ (RootPassStep /\ StepCalls("RenderNil") = {}) =>
             /\ IF prevVDOM = NilVNode THEN ClearedAndMaterialized /\ last'.op = "render"
                ELSE IF prevVDOM.ComponentKey # currentKey
                THEN ClearedAndMaterialized /\ last'.op = "replace"
                ELSE PatchedOnly /\ last'.op = "patch"
             /\ RetainsStampedTree
       /\ prevVDOM # NilVNode => prevVDOM' # NilVNode]_vars


\* the composite keys RenderChild resolved in the step
StepKeys == {hooks'[i].k : i \in StepCalls("RenderChild")}

\* the step called OnUnmount on the instance o
StepUnmounted(o) == \E i \in StepCalls("OnUnmount") : hooks'[i].o = o

\* C25: after every completed root pass the key set of the registry is the
\* set of the composite keys RenderChild resolved in that pass: every key
\* that was registered and not resolved is purged, after the unmount hook of
\* its instance, and no resolved key is purged.
C25_RegistryIsResolvedKeys ==
    [][(RootPassStep /\ ~crashed') =>
          /\ DOMAIN instances' = StepKeys
          /\ \A k \in (DOMAIN instances) \ StepKeys : StepUnmounted(instances[k])
          /\ \A k \in (DOMAIN instances) \cap StepKeys :
                instances'[k] = instances[k] /\ ~StepUnmounted(instances[k])]_vars

\* a completed root pass that resolved a registered key and purged another
C25_Witness ==
    /\ last.op \in {"patch", "replace"} /\ ~crashed
    /\ hooks[Len(hooks)].h = "OnUnmount"
    /\ hooks[Len(hooks)].o # currentComponent
    /\ \E i \in HookAt("RenderChild") :
          /\ hooks[i].p = hooks[Len(hooks)].p
          /\ hooks[i].o # hooks[i].c
          /\ DOMAIN instances = {hooks[i].k}


\* the step called Render of the component o
StepRendered(o) == \E i \in StepCalls("Render") : hooks'[i].o = o

\* the child registered under key k was dropped by its owner in the step:
\* the owner was rendered and did not resolve k
DroppedByOwner(k) ==
    /\ k \in DOMAIN instances
    /\ StepRendered(k[1])
    /\ k \notin StepKeys
    /\ ~crashed'

\* the step retired the child registered under k: one OnUnmount call, and
\* the entry is purged
RetiredInStep(k) ==
    /\ k \notin DOMAIN instances'
    /\ Cardinality({i \in StepCalls("OnUnmount") : hooks'[i].o = instances[k]}) = 1

\* C26: a child instance its owner's Render stops resolving is retired (its
\* unmount hook called once, its entry purged) by the end of the first
\* render pass, root or scoped, in which the owner is rendered without it.
C26_DroppedChildRetiredInPass ==
    [][\A k \in DOMAIN instances : DroppedByOwner(k) => RetiredInStep(k)]_vars

\* the same, for root passes only
C26_DroppedChildRetiredInRootPass ==
    [][RootPassStep => \A k \in DOMAIN instances : DroppedByOwner(k) => RetiredInStep(k)]_vars


(***************************************************************************)
(* Scoped passes in a row: one renderer, at most MaxShortPasses root       *)
(* passes and MaxScopedPasses calls of ReRenderSlot.                       *)
(***************************************************************************)
ScopedReRenderSlot(slotParent, plan) ==
    /\ ~crashed /\ mu = NoTask /\ slots < MaxScopedPasses
    /\ reRenderSlot(slotParent, plan)
    /\ UNCHANGED <<build, navManager, hasMount, navs, faults, concVars>>

\* the passes of this specification: a root without children, a root with
\* the child x, and a Render that returns nil
ScopedPlans == {pl \in SlotPlans : ~pl.deep}

NextScoped ==
    \/ \E comp \in RootComponents, key \in RootKeys : SetCurrentComponent(comp, key)
    \/ \E plan \in ScopedPlans : ShortRenderRoot(plan)
    \/ \E slotParent \in SlotParents, plan \in ScopedPlans :
          ScopedReRenderSlot(slotParent, plan)

SpecScoped == Init /\ [][NextScoped]_vars

\* the step is a scoped pass of an owner with a cached tree whose Render
\* returned a tree
PatchSlotStep == SlotStep /\ cachedTree(SlotOwner) /\ ret' = "nil"

\* C27: a scoped pass for an owner with a cached tree diffs the owner's new
\* tree against the tree the cache holds for the owner, not against the tree
\* of the root scope, and then caches the new tree for the owner (the root
\* tree is left alone), so that the next scoped pass of the owner diffs
\* against the tree of this one.
C27_ScopedPassDiffsOwnerTree ==
    [][PatchSlotStep =>
          /\ instanceVDOMCache'[SlotOwner] # NilVNode
          /\ mount' = Patch(mount, instanceVDOMCache[SlotOwner],
                            instanceVDOMCache'[SlotOwner], focus, gen + 1)
          /\ last'.op = "slot" /\ last'.old = instanceVDOMCache[SlotOwner]
          /\ \A o \in DOMAIN instanceVDOMCache :
                o # SlotOwner => instanceVDOMCache'[o] = instanceVDOMCache[o]
          /\ prevVDOM' = prevVDOM]_vars

\* two scoped passes of one owner in a row, the second diffing against the
\* tree the first cached, which is not the tree of the root scope
C27_Witness ==
    /\ last.op = "slot" /\ slots >= 2 /\ ~crashed
    /\ \E i, j \in HookAt("ReRenderSlot") :
          /\ hooks[j].p = hooks[i].p + 1 /\ hooks[j].p = passes + slots
          /\ hooks[i].o = hooks[j].o
          /\ \E n \in HookAt("Patch") : hooks[n].p = hooks[i].p
          /\ last.old # prevVDOM
          /\ last.old # instanceVDOMCache[hooks[j].o]


\* the step is a scoped pass of an owner without cached tree whose Render
\* returned a tree
FullSlotStep == SlotStep /\ ~cachedTree(SlotOwner) /\ StepCalls("RenderNil") = {}

\* the cache holds a tree for o after the step
CachedAfter(o) ==
    o \in DOMAIN instanceVDOMCache' /\ instanceVDOMCache'[o] # NilVNode

\* C28: a scoped pass for an owner (not nil) with no cached tree materializes
\* the owner's fresh tree under the mount, caches it for the owner and
\* returns no error; a cached tree stays cached, so the next scoped pass of
\* the owner takes the patch branch.
C28_ScopedPassFallsBackToFull ==
    [][/\ FullSlotStep =>
             /\ ret' = "nil" /\ ~crashed'
             /\ CachedAfter(SlotOwner)
             /\ mount' = RenderTo(mount, instanceVDOMCache'[SlotOwner], gen + 1)
             /\ Len(mount') = Len(mount) + 1
             /\ last'.op = "full"
       /\ \A o \in DOMAIN instanceVDOMCache : cachedTree(o) => CachedAfter(o)]_vars

\* a scoped pass of an owner without cached tree, followed by a scoped pass
\* of the same owner that patched
C28_Witness ==
    /\ last.op = "slot" /\ ret = "nil" /\ ~crashed
    /\ \E i \in HookAt("reRenderFull"), j \in HookAt("ReRenderSlot") :
          /\ hooks[j].p = hooks[i].p + 1 /\ hooks[j].p = passes + slots
          /\ hooks[j].o = hooks[i].o
          /\ \E n \in HookAt("Materialize") : hooks[n].p = hooks[i].p
          /\ \E n \in HookAt("Patch") : hooks[n].p = hooks[j].p


(***************************************************************************)
(* patchAttributes on one element: the element is created for an           *)
(* attribute map and then patched from map to map.  prevVDOM is the node   *)
(* carrying the map the element was last patched to.                       *)
(***************************************************************************)
\* the attribute maps: a string attribute, a boolean attribute and an event
\* handler, each present or absent
AttributeMaps ==
    {[k \in ks |-> IF k = "class" THEN StrVal(c)
                   ELSE IF k = "disabled" THEN BoolVal(b)
                   ELSE FuncVal("h1")] :
        ks \in SUBSET {"class", "disabled", "onClick"},
        c \in {"a", "b"}, b \in BOOLEAN}

AttrNode(attrs) == VNode("div", attrs, <<>>, "")

\* the attributes of the native element createElement builds for the map
MaterializedAttrs(attrs) ==
    setAllAttributes(NativeNode(NoId, "div", ""), attrs, DOMAIN attrs).attrs

\* createElement of a node carrying the map
CreateAttrElement(attrs) ==
    /\ ~crashed /\ prevVDOM = NilVNode
    /\ mount' = <<createElement(AttrNode(attrs), gen + 1, <<>>)>>
    /\ prevVDOM' = AttrNode(attrs)
    /\ gen' = gen + 1
    /\ last' = [op |-> "create", old |-> prevVDOM, pre |-> mount, fid |-> focus]
    /\ UNCHANGED <<crashed, domVars, renVars, envVars, concVars>>

\* patchAttributes(domElement, oldAttrs, newAttrs) on the element
PatchAttributes(newAttrs) ==
    /\ ~crashed /\ prevVDOM # NilVNode /\ gen <= MaxPatches
    /\ mount' = <<patchAttributes(mount[1], prevVDOM.Attributes, newAttrs)>>
    /\ prevVDOM' = AttrNode(newAttrs)
    /\ gen' = gen + 1
    /\ last' = [op |-> "attrs", old |-> prevVDOM, pre |-> mount, fid |-> focus]
    /\ UNCHANGED <<crashed, domVars, renVars, envVars, concVars>>

NextAttr ==
    \/ \E attrs \in AttributeMaps : CreateAttrElement(attrs)
    \/ \E attrs \in AttributeMaps : PatchAttributes(attrs)

SpecAttr == Init /\ [][NextAttr]_vars

\* the last step was patchAttributes on an element whose attributes were
\* those of the old map
PatchedFromOld ==
    /\ last.op = "attrs"
    /\ last.pre[1].attrs = MaterializedAttrs(last.old.Attributes)

\* C29: patchAttributes(native, old, new) on an element whose non-event
\* attributes equal old leaves them equal to new, and makes no native call
\* when the two maps are equal.
C29_PatchAttributesReachesNew ==
    PatchedFromOld =>
        /\ mount[1].attrs = MaterializedAttrs(prevVDOM.Attributes)
        /\ last.old = prevVDOM => mount[1].aw = last.pre[1].aw

\* the same, when no boolean attribute of old turns false
C29_PatchAttributesWithoutFalse ==
    (/\ PatchedFromOld
     /\ \A k \in DOMAIN prevVDOM.Attributes :
           prevVDOM.Attributes[k] = BoolVal(FALSE)
               => (k \in DOMAIN last.old.Attributes
                     => last.old.Attributes[k] = BoolVal(FALSE)))
        => /\ mount[1].attrs = MaterializedAttrs(prevVDOM.Attributes)
           /\ last.old = prevVDOM => mount[1].aw = last.pre[1].aw


(***************************************************************************)
(* Claims about the text content step of patchElement (checked under       *)
(* SpecDom, on the element Patch hands to patchElement).                   *)
(***************************************************************************)
\* the last step was patchElement on the first child of the mount, for an
\* old and a new node of the same tag, which is not input, textarea or select
TextPatched ==
    /\ last.op = "patch"
    /\ Len(last.pre) > 0
    /\ last.old.Tag = prevVDOM.Tag
    /\ prevVDOM.Tag \notin {"input", "textarea", "select"}

\* the writes of textContent patchElement made on the element
TextWrites == mount[1].tw - last.pre[1].tw

C30_LeafWritten ==
    /\ TextPatched
    /\ Len(prevVDOM.Children) = 0
    /\ last.old.Content # prevVDOM.Content
    /\ TextWrites = 1


(***************************************************************************)
(* Claims about the event listeners of a patched element (checked under    *)
(* SpecDom).                                                               *)
(***************************************************************************)
\* the handlers bound to the native node d for the event ev, in the order
\* the browser calls them
HandlersFor(d, ev) ==
    [i \in 1..Cardinality({n \in DOMAIN d.listeners : d.listeners[n][1] = ev}) |->
        d.listeners[CHOOSE n \in DOMAIN d.listeners :
                        /\ d.listeners[n][1] = ev
                        /\ Cardinality({m \in 1..n : d.listeners[m][1] = ev}) = i][2]]

\* the retained tree carries a click handler and the first child of the
\* mount is the element rendered for it
CarriesClickHandler ==
    /\ prevVDOM # NilVNode /\ Len(mount) > 0
    /\ mount[1].tag = prevVDOM.Tag
    /\ "onClick" \in DOMAIN prevVDOM.Attributes
    /\ prevVDOM.Attributes["onClick"].t = "func"

\* C31: after any number of patches of one native element whose tree carries
\* an event attribute for an event, exactly one handler for the event is
\* bound to the element, the handler of the most recent tree, so that one
\* native event triggers one handler call.
C31_OneHandlerPerEvent ==
    CarriesClickHandler =>
        HandlersFor(mount[1], "click") = <<prevVDOM.Attributes["onClick"].v>>

\* the same, for an element no patch has touched since it was created
C31_OneHandlerAfterCreate ==
    (CarriesClickHandler /\ mount[1].id[1] = gen) =>
        HandlersFor(mount[1], "click") = <<prevVDOM.Attributes["onClick"].v>>

(***************************************************************************)
(* The onChange callback of the router (events.go, "onChange Callback"):   *)
(* renderer.SetCurrentComponent(newComponent, path) followed by            *)
(* renderer.ReRender(), two calls that take and release r.mu one after     *)
(* the other.  Each goroutine runs the callback once; the calls of the     *)
(* goroutines interleave wherever the lock is free.                        *)
(***************************************************************************)
\* the calls the goroutine t has made
RequestsOf(t) == {i \in HookAt("Request") : hooks[i].o = t}

\* the next call of the callback in the goroutine t
onRouteChangeCall(t, newComponent, path) ==
    IF RequestsOf(t) = {}
    THEN [name |-> "SetCurrentComponent", comp |-> newComponent, key |-> path]
    ELSE [name |-> "ReRender", comp |-> NoObj, key |-> ""]

\* the goroutine t arrives at r.mu.Lock() of the next call of the callback
onRouteChange(t, newComponent, path) ==
    /\ ~crashed /\ pc[t] = "idle" /\ Cardinality(RequestsOf(t)) < 2
    /\ pc' = [pc EXCEPT ![t] = "waiting"]
    /\ op' = [op EXCEPT ![t] = onRouteChangeCall(t, newComponent, path)]
    /\ calls' = calls + 1
    /\ hooks' = logRequest(t, onRouteChangeCall(t, newComponent, path))
    /\ UNCHANGED <<mount, prevVDOM, gen, crashed, last, domVars, instances,
                   initialized, activeKeys, currentComponent, currentKey,
                   renderingStack, instanceVDOMCache, nextObj, passes, envVars, mu,
                   appVars>>

NextRoute ==
    \/ \E t \in Tasks, c \in RootComponents, k \in RootKeys : onRouteChange(t, c, k)
    \/ \E t \in Tasks : Acquire(t)
    \/ \E t \in Tasks, plan \in ConcPlans : Run(t, plan)
    \/ \E t \in Tasks : Release(t)

SpecRoute == InitConc /\ [][NextRoute]_vars

\* every goroutine has run the callback and both its calls have returned
AllReturned ==
    \A t \in Tasks : pc[t] = "idle" /\ Cardinality(RequestsOf(t)) = 2

\* the root fields change only in the body of a SetCurrentComponent call
\* that holds the lock, and become the arguments of that call
SetByLockHolder ==
    (currentComponent' # currentComponent \/ currentKey' # currentKey)
        => \E t \in Tasks :
              /\ mu = t /\ pc[t] = "locked" /\ op[t].name = "SetCurrentComponent"
              /\ pc'[t] = "unlocking"
              /\ currentComponent' = op[t].comp /\ currentKey' = op[t].key

\* the body of a SetCurrentComponent call leaves its arguments in the fields
SetTakesEffect ==
    \A t \in Tasks :
        (pc[t] = "locked" /\ op[t].name = "SetCurrentComponent" /\ pc'[t] = "unlocking")
            => (currentComponent' = op[t].comp /\ currentKey' = op[t].key)

\* the retained tree and the mount are those of the current root and key
ShowsCurrentRoot ==
    /\ prevVDOM # NilVNode
    /\ prevVDOM.Tag = RootTag(currentComponent)
    /\ prevVDOM.ComponentKey = currentKey
    /\ ViewAll(mount) = Materialized(prevVDOM)

\* C32: when the goroutines each run SetCurrentComponent(c, k) followed by
\* ReRender(), then once all calls have returned the retained root tree and
\* the native content under the mount are those rendered from the component
\* and key of the SetCurrentComponent call that took the lock last.
C32_LastSetterWins ==
    /\ [][SetByLockHolder /\ SetTakesEffect]_vars
    /\ [](AllReturned => ShowsCurrentRoot)

\* both goroutines have returned, their SetCurrentComponent calls named
\* different roots, and the pass of the first ReRender ran between them
C32_Witness ==
    /\ AllReturned
    /\ \E i, j \in HookAt("Request"), n \in HookAt("RenderRoot") :
          /\ hooks[i].k[2] = "SetCurrentComponent" /\ hooks[j].k[2] = "SetCurrentComponent"
          /\ hooks[i].k[1] # hooks[j].k[1] /\ i < n /\ n < j
    /\ passes = 2

(***************************************************************************)
(* Root passes requested by goroutines, with panicking hooks, in either    *)
(* build.  A panic that leaves a hook in the dev build unwinds RenderRoot: *)
(* the deferred r.mu.Unlock() runs (Release) and the panic reaches the     *)
(* caller of ReRender, which may recover it as the goroutine of            *)
(* HomePage.OnParametersSet does.                                          *)
(***************************************************************************)
\* the body of ReRender in the goroutine t, in a pass whose hook call flt
\* panics
FaultyRun(t, plan, flt) ==
    /\ ~crashed /\ pc[t] = "locked" /\ op[t].name = "ReRender"
    /\ currentComponent # NoObj /\ faults < MaxFaults
    /\ renderRoot(plan, flt)
    /\ faults' = faults + 1
    /\ pc' = [pc EXCEPT ![t] = "unlocking"]
    /\ UNCHANGED <<build, navManager, hasMount, ret, slots, navs, mu, op, calls,
                   appVars>>

\* the deferred recover() of the caller, once the panic has left RenderRoot
Recover ==
    /\ crashed /\ \A t \in Tasks : pc[t] # "unlocking"
    /\ crashed' = FALSE
    /\ UNCHANGED <<mount, prevVDOM, gen, last, domVars, renVars, envVars, concVars>>

\* a renderer of either build whose root component was set
InitDev ==
    /\ InitFields
    /\ currentComponent = RootA
    /\ currentKey = "/a"
    /\ build \in {"prod", "dev"}
    /\ navManager = TRUE
    /\ hasMount = TRUE

ReRenderCalls == {c \in ConcCalls : c.name = "ReRender"}

NextDev ==
    \/ \E t \in Tasks, call \in ReRenderCalls : Request(t, call)
    \/ \E t \in Tasks : Acquire(t)
    \/ \E t \in Tasks, plan \in FltPlans : Run(t, plan)
    \/ \E t \in Tasks, plan \in FltPlans, flt \in Faults \ {NoFault} :
          FaultyRun(t, plan, flt)
    \/ \E t \in Tasks : Release(t)
    \/ Recover

SpecDev == InitDev /\ [][NextDev]_vars

\* the entries the step adds to the log
Logged == {i \in DOMAIN hooks' : i > Len(hooks)}

\* the step is a root pass of the dev build in which OnMount or
\* OnParametersSet panicked
DevFaultStep ==
    /\ build = "dev" /\ passes' = passes + 1
    /\ \E i \in Logged : hooks'[i].f /\ hooks'[i].h \in {"OnMount", "OnParametersSet"}

\* the panicking call is the last call of the pass, no native step was taken
\* and the panic leaves RenderRoot
AbortedBeforeNative ==
    /\ crashed'
    /\ hooks'[Len(hooks')].f
    /\ \A i \in Logged : hooks'[i].h \notin {"Clear", "Materialize", "Patch"}
    /\ mount' = mount /\ prevVDOM' = prevVDOM

\* the lock is held only by a goroutine that is inside a call, so that a
\* goroutine that has left its call by a panic does not hold it
HeldInsideCall == \A t \in Tasks : (mu = t) => InCritical(t)

\* C33: in the dev build a panic of OnMount or OnParametersSet in a root
\* pass leaves RenderRoot and aborts the pass before any native mutation:
\* the retained tree is unchanged and the lock is released, so that a later
\* request can take it and run.
C33_DevFaultAbortsPass ==
    /\ [][DevFaultStep => AbortedBeforeNative]_vars
    /\ [](HeldInsideCall /\ (crashed /\ (\A t \in Tasks : ~InCritical(t)) => mu = NoTask))

\* after a pass of the dev build that OnMount of a child aborted, a later
\* request took the lock and ran a pass to its native step
C33_Witness ==
    /\ build = "dev" /\ ~crashed
    /\ \E i \in HookAt("OnMount") :
          /\ hooks[i].f /\ hooks[i].o \notin RootComponents
          /\ NativeSteps(hooks[i].p) = {}
          /\ \E n \in HookAt("Patch") \cup HookAt("Materialize") : hooks[n].p > hooks[i].p

(***************************************************************************)
(* Claims about the trees the passes diff against (checked under           *)
(* SpecScoped).                                                            *)
(***************************************************************************)
\* the owner of the last ReRenderSlot call
LastSlotOwner ==
    hooks[CHOOSE i \in HookAt("ReRenderSlot") :
              \A j \in HookAt("ReRenderSlot") : j <= i].o

\* the last native step wrote the first child of the mount: a root pass, a
\* scoped pass that patched, or a scoped fallback into an empty mount
FirstChildWritten ==
    \/ last.op \in {"render", "replace", "patch", "slot"}
    \/ last.op = "full" /\ last.pre = <<>>

\* the tree that step wrote it from: the one RenderRoot and reRenderFull
\* retain in prevVDOM, or the one ReRenderSlot caches for the owner
FirstChildSource ==
    IF last.op = "slot" THEN instanceVDOMCache[LastSlotOwner] ELSE prevVDOM

\* the step hands the first child of the mount to Patch
DiffStep ==
    /\ StepCalls("Patch") # {} /\ last'.op \in {"patch", "slot"}
    /\ Len(mount) > 0

\* C34: after completed root passes, scoped passes and scoped fallbacks,
\* every diff starts from a valid precondition: the native node handed to
\* Patch was materialized or last patched from the tree it is diffed
\* against, in a root pass and in a scoped pass of any cached owner.
C34_DiffAgainstSourceOfNative ==
    [][(DiffStep /\ FirstChildWritten) => last'.old = FirstChildSource]_vars

\* the same, for a root pass that follows a root pass
C34_RootAfterRoot ==
    [][(DiffStep /\ last.op \in {"render", "replace", "patch"} /\ last'.op = "patch")
          => last'.old = FirstChildSource]_vars

\* a pass has completed a native step
PassCompleted == last.op \in {"render", "replace", "patch", "slot", "full"} /\ ~crashed

\* C35: after the first completed pass and any later root passes, scoped
\* passes and scoped fallbacks, the mount holds exactly one root native
\* child, the one Patch reads as firstChild: no pass leaves two rendered
\* trees side by side.
C35_OneRootChild == PassCompleted => Len(mount) = 1

\* the same, as long as no scoped pass fell back to reRenderFull
C35_OneRootChildWithoutFallback ==
    (PassCompleted /\ HookAt("reRenderFull") = {}) => Len(mount) = 1

\* the component whose Render function made the RenderChild call of entry i:
\* the one of the last Render entry before i (the Render functions of the
\* plans of SpecSlot and SpecScoped resolve at most one child each)
OwnerOf(i) ==
    hooks[CHOOSE r \in HookAt("Render") :
              r < i /\ \A q \in HookAt("Render") : q < i => q <= r].o

\* the pass of entry i is a scoped pass that fell back to reRenderFull
InFallback(i) == \E n \in HookAt("reRenderFull") : hooks[n].p = hooks[i].p

\* the RenderChild calls of entries i and j resolve the same child: the same
\* owner was rendering and the local key is the same
SameChild(i, j) == OwnerOf(i) = OwnerOf(j) /\ hooks[i].k[2] = hooks[j].k[2]

\* C36: a child resolved with a local key while an owner is rendering gets
\* the same composite key in a root pass, in a scoped pass of the owner and
\* in the scoped fallback of the owner, so that the three reuse the one
\* registered instance.
C36_SameKeyInEveryPassKind ==
    \A i, j \in HookAt("RenderChild") : SameChild(i, j) => hooks[i].k = hooks[j].k

\* the same, for the root passes and the scoped passes that patch
C36_SameKeyWithoutFallback ==
    \A i, j \in HookAt("RenderChild") :
        (SameChild(i, j) /\ ~InFallback(i) /\ ~InFallback(j)) => hooks[i].k = hooks[j].k

(***************************************************************************)
(* Root passes and scoped passes of one caller, with the                   *)
(* SetCurrentComponent calls noted in the log, so that the log tells       *)
(* which objects the application handed to the renderer and when.          *)
(***************************************************************************)
\* SetCurrentComponent(comp, key), with an entry in the log
SetCurrentComponentCall(comp, key) ==
    /\ ~crashed /\ mu = NoTask /\ calls < MaxCalls
    /\ currentComponent # comp \/ currentKey # key
    /\ currentComponent' = comp
    /\ currentKey' = key
    /\ hooks' = Append(hooks, [h |-> "SetCurrentComponent", o |-> comp,
                               k |-> <<NoObj, key>>, c |-> NoObj,
                               p |-> passes + slots, f |-> FALSE])
    /\ calls' = calls + 1
    /\ UNCHANGED <<mount, prevVDOM, gen, crashed, last, domVars, instances,
                   initialized, activeKeys, renderingStack, instanceVDOMCache,
                   nextObj, passes, envVars, mu, pc, op, appVars>>

NextKeyed ==
    \/ \E comp \in RootComponents, key \in RootKeys : SetCurrentComponentCall(comp, key)
    \/ \E plan \in ScopedPlans : RenderRoot(plan)
    \/ \E slotParent \in SlotParents, plan \in ScopedPlans : ReRenderSlot(slotParent, plan)

SpecKeyed == Init /\ [][NextKeyed]_vars

\* the calls the renderer makes on an instance between OnMount and OnUnmount
LifecycleCalls == {"OnMount", "OnParametersSet", "ApplyProps", "Render"}

\* between the entries i and j of the log the application handed the object
\* o to SetCurrentComponent or, as the candidate, to RenderChild
HandedAgain(o, i, j) ==
    \E n \in (i + 1)..j :
        \/ hooks[n].h = "SetCurrentComponent" /\ hooks[n].o = o
        \/ hooks[n].h = "RenderChild" /\ hooks[n].c = o

\* the entry j is a call on the object of entry i in a later pass
CalledInLaterPass(i, j) ==
    /\ j > i /\ hooks[j].p > hooks[i].p
    /\ hooks[j].o = hooks[i].o /\ hooks[j].h \in LifecycleCalls

\* C37: OnUnmount is the last lifecycle call the renderer makes on an
\* instance: after its OnUnmount no later pass calls its OnMount,
\* OnParametersSet, ApplyProps or Render, unless the application handed the
\* object to SetCurrentComponent or RenderChild again after the unmount.
C37_UnmountIsLastCall ==
    \A i \in HookAt("OnUnmount"), j \in DOMAIN hooks :
        CalledInLaterPass(i, j) => HandedAgain(hooks[i].o, i, j)

\* the same, for the instances RenderChild registered
C37_UnmountIsLastCallOfChild ==
    \A i \in HookAt("OnUnmount"), j \in DOMAIN hooks :
        (CalledInLaterPass(i, j) /\ hooks[i].o \notin RootComponents)
            => HandedAgain(hooks[i].o, i, j)

(***************************************************************************)
(* A render request made from inside a pass.  The hooks, ApplyProps and    *)
(* the Render functions run in the goroutine of the pass, between          *)
(* r.mu.Lock() and the deferred r.mu.Unlock() of RenderRoot; one of them   *)
(* that calls ReRender (as a layout does whose OnUpdate callback is its    *)
(* StateHasChanged, when MainLayoutCtx.SetTitle is called from a hook)     *)
(* arrives at r.mu.Lock() of RenderRoot in that same goroutine.            *)
(***************************************************************************)
\* RenderRoot up to the OnParametersSet call of the root
renderRootToParametersSet(st) ==
    Hook(mountRoot(
             Call(Push([st EXCEPT !.activeKeys = {}], currentComponent),
                  "RenderRoot", currentComponent, <<NoObj, currentKey>>, NoObj)),
         "OnParametersSet", currentComponent)

\* the pass of the goroutine t runs up to OnParametersSet of the root, which
\* calls ReRender: the goroutine arrives at r.mu.Lock() again
ReRenderInHook(t) ==
    /\ ~crashed /\ pc[t] = "locked" /\ op[t].name = "ReRender"
    /\ currentComponent # NoObj
    /\ commitSlotState(renderRootToParametersSet(PassState))
    /\ pc' = [pc EXCEPT ![t] = "waiting"]
    /\ UNCHANGED <<mount, prevVDOM, gen, crashed, last, domVars, currentComponent,
                   currentKey, instanceVDOMCache, passes, envVars, mu, op, calls,
                   appVars>>

NextNested ==
    \/ \E t \in Tasks, call \in ReRenderCalls : Request(t, call)
    \/ \E t \in Tasks : Acquire(t)
    \/ \E t \in Tasks, plan \in ConcPlans : Run(t, plan)
    \/ \E t \in Tasks : ReRenderInHook(t)
    \/ \E t \in Tasks : Release(t)

SpecNested == InitConc /\ [][NextNested]_vars

\* C38: a render request issued synchronously from a hook, an ApplyProps or
\* a Render function that runs inside a pass returns: the renderer never
\* reaches a state in which the goroutine that holds the lock waits for
\* that same lock.
C38_HolderNeverWaitsForLock ==
    \A t \in Tasks : ~(pc[t] = "waiting" /\ mu = t)

\* C39: whenever the renderer lock is free the rendering-context stack is
\* empty: every push of RenderRoot, RenderChild and ReRenderSlot is matched
\* by a pop before the pass ends, in both builds and also when a fault in a
\* hook or in Render aborts the pass.
C39_StackEmptyWhenLockFree ==
    (mu = NoTask) => renderingStack = <<>>

\* the same, for the build that recovers the panics of the hooks
C39_StackEmptyWhenLockFreeProd ==
    (mu = NoTask /\ build = "prod") => renderingStack = <<>>

====
